---- MODULE Spec2Model ----
(***************************************************************************)
(* Model of the Kue QGIS plugin's file finder (kue_find.py: IndexingTask,  *)
(* KueFind, BBoxFinder) and of its streaming response decoder              *)
(* (kue_task.py: KueTask.run and KueTask.handle_ready_read).               *)
(*                                                                         *)
(* Python strings are sequences of one-character strings.  Python object   *)
(* references are task numbers: KueFind.files and KueFind.filename_trigrams *)
(* hold a reference to the list/dict of a task (0 is the object built by   *)
(* KueFind.__init__), because task_completed assigns the task's own list   *)
(* and dict, it does not copy them.  In the plugin index() is called by    *)
(* search() only (Spec); SpecApi also opens index() to other callers.      *)
(***************************************************************************)
EXTENDS Integers, Sequences, FiniteSets, TLC

VARIABLES
    fs,                 \* what os.walk yields: sequence of [root, files]
    tasks,              \* every IndexingTask built so far, by task number
    files,              \* KueFind.files: reference to a list (0 or a task)
    filename_trigrams,  \* KueFind.filename_trigrams: reference to a dict
    index_task,         \* KueFind.index_task: 0 is None, else a task number
    index_task_trash,   \* KueFind.index_task_trash
    ret,                \* outcome of the last main-thread call
    body,               \* reply bytes not yet delivered by readyRead
    _read_buffer,       \* KueTask._read_buffer
    has_sent_chat_message_id,  \* KueTask.has_sent_chat_message_id
    received,           \* decoded text appended to _read_buffer so far
    emitted,            \* signals emitted by the KueTask, in order
    sent,               \* the reply body as the server sent it
    USE_SQLITE,         \* whether import sqlite3 succeeded
    sqlite_files,       \* committed rows of table files, in rowid order
    indexed_before,     \* paths processed by completed walks of earlier
                        \* sessions that had the cache
    kue,                \* KueTask.run(): its position, the cancel flag, the
                        \* state of the reply and the value returned
    poll,               \* KuePollingTask: progress, bytes of the reply not
                        \* read yet, whether a handler call has raised
    geo                 \* FILTER_INVALID_GEOMETRIES with the geoprocessing
                        \* tasks of actionsToResponses

diskVars == <<USE_SQLITE, sqlite_files, indexed_before>>
findVars == <<fs, tasks, files, filename_trigrams, index_task,
              index_task_trash, ret, USE_SQLITE, sqlite_files, indexed_before>>
plugVars == <<poll, geo>>
taskVars == <<body, _read_buffer, has_sent_chat_message_id, received,
              emitted, sent, kue, poll, geo>>
vars == <<fs, tasks, files, filename_trigrams, index_task, index_task_trash,
          ret, body, _read_buffer, has_sent_chat_message_id, received,
          emitted, sent, USE_SQLITE, sqlite_files, indexed_before, kue,
          poll, geo>>

----------------------------------------------------------------------------
(* Bounds of the model *)

MaxTasks == 3       \* IndexingTasks built in one behaviour
MaxChunks == 4      \* readyRead events of one reply
MaxLen == 4         \* length of the strings whose similarity is taken

----------------------------------------------------------------------------
(* Strings *)

\* str.lower on one character (ASCII letters; the others stay)
UpperCase == <<"A", "B", "C", "D", "E", "F", "G", "H", "I", "J", "K", "L", "M",
               "N", "O", "P", "Q", "R", "S", "T", "U", "V", "W", "X", "Y", "Z">>
LowerCase == <<"a", "b", "c", "d", "e", "f", "g", "h", "i", "j", "k", "l", "m",
               "n", "o", "p", "q", "r", "s", "t", "u", "v", "w", "x", "y", "z">>
LowerMap ==
    [c \in {UpperCase[i] : i \in 1..26} |->
        LowerCase[CHOOSE i \in 1..26 : UpperCase[i] = c]]

Lower(c) == IF c \in DOMAIN LowerMap THEN LowerMap[c] ELSE c

LowerStr(s) == [i \in 1..Len(s) |-> Lower(s[i])]

StartsWith(s, p) == Len(s) >= Len(p) /\ SubSeq(s, 1, Len(p)) = p

EndsWith(s, p) ==
    Len(s) >= Len(p) /\ SubSeq(s, Len(s) - Len(p) + 1, Len(s)) = p

IsSpace(c) == c \in {" ", "\t", "\n", "\r"}

RECURSIVE SplitOn(_, _)
\* str.split(sep) for a one-character separator
SplitOn(s, sep) ==
    IF \A i \in 1..Len(s) : s[i] # sep THEN <<s>>
    ELSE LET k == CHOOSE i \in 1..Len(s) :
                      s[i] = sep /\ \A j \in 1..(i - 1) : s[j] # sep
         IN <<SubSeq(s, 1, k - 1)>> \o SplitOn(SubSeq(s, k + 1, Len(s)), sep)

RECURSIVE SplitWords(_)
\* str.split() without argument: runs of whitespace separate, none is kept
SplitWords(s) ==
    IF \A i \in 1..Len(s) : IsSpace(s[i]) THEN << >>
    ELSE LET b == CHOOSE i \in 1..Len(s) :
                      ~IsSpace(s[i]) /\ \A j \in 1..(i - 1) : IsSpace(s[j])
             e == CHOOSE i \in b..Len(s) :
                      /\ \A j \in b..i : ~IsSpace(s[j])
                      /\ (i = Len(s) \/ IsSpace(s[i + 1]))
         IN <<SubSeq(s, b, e)>> \o SplitWords(SubSeq(s, e + 1, Len(s)))

RECURSIVE JoinWords(_)
\* " ".join(words)
JoinWords(ws) ==
    IF Len(ws) = 0 THEN << >>
    ELSE IF Len(ws) = 1 THEN ws[1]
    ELSE ws[1] \o <<" ">> \o JoinWords(Tail(ws))

get_trigrams(text) ==
    LET t == LowerStr(text)
    IN IF Len(t) > 2 THEN {SubSeq(t, i, i + 2) : i \in 1..(Len(t) - 2)}
       ELSE {t}

----------------------------------------------------------------------------
(* The file system the walk sees, and what the format readers return *)

VECTOR_EXTENSIONS == {<<".", "s", "h", "p">>, <<".", "g", "p", "k", "g">>,
                      <<".", "f", "g", "b">>}
RASTER_EXTENSIONS == {<<".", "t", "i", "f">>}

HomeDir == <<"/", "h">>                     \* os.path.expanduser("~")
SubDir == <<"/", "h", "/", "d">>
HiddenDir == <<"/", "h", "/", ".", "c">>
NestedDir == <<"/", "h", "/", ".", "c", "/", "e">>   \* below the hidden one

Name_A_tif == <<"A", ".", "t", "i", "f">>
Name_b_shp == <<"b", ".", "s", "h", "p">>
Name_c_tif == <<"c", ".", "t", "i", "f">>
Name_n_txt == <<"n", ".", "t", "x", "t">>
Name_dot_b_shp == <<".", "b", ".", "s", "h", "p">>

\* os.walk(HomeDir) of a home directory holding geodata, top-down
PopulatedFS ==
    << [root |-> HomeDir, files |-> <<Name_A_tif, Name_n_txt, Name_dot_b_shp>>],
       [root |-> HiddenDir, files |-> <<Name_c_tif>>],
       [root |-> SubDir, files |-> <<Name_b_shp>>] >>

\* a home directory with a hidden directory and a directory below it
DeepFS ==
    << [root |-> HomeDir, files |-> <<Name_A_tif, Name_dot_b_shp>>],
       [root |-> HiddenDir, files |-> <<Name_c_tif>>],
       [root |-> NestedDir, files |-> <<Name_b_shp>>],
       [root |-> SubDir, files |-> <<Name_b_shp, Name_n_txt>>] >>

\* a home directory without any geodata file
EmptyFS == << [root |-> HomeDir, files |-> <<Name_n_txt>>] >>

\* a home directory with two files of one name
TwinFS ==
    << [root |-> HomeDir, files |-> <<Name_b_shp>>],
       [root |-> SubDir, files |-> <<Name_b_shp>>] >>

FileSystems == {PopulatedFS, EmptyFS, TwinFS}

PathJoin(root, file) == root \o <<"/">> \o file      \* os.path.join

RECURSIVE Basename(_)
Basename(path) ==                                    \* os.path.basename
    IF \A i \in 1..Len(path) : path[i] # "/" THEN path
    ELSE Basename(Tail(path))

\* os.walk(dir_path): the levels at and below dir_path
WalkOf(dir_path) ==
    SelectSeq(fs, LAMBDA l : l.root = dir_path
                             \/ StartsWith(l.root, dir_path \o <<"/">>))

\* mutant of IsHiddenRoot: only the directory's own name is looked at
IsHiddenRoot_OwnName(root) ==
    LET parts == SplitOn(root, "/")
    IN StartsWith(parts[Len(parts)], <<".">>)

IsHiddenRoot(root) ==
    LET parts == SplitOn(root, "/")
    IN \E i \in 1..Len(parts) : StartsWith(parts[i], <<".">>)

IsCandidate(file) ==
    /\ \E ext \in VECTOR_EXTENSIONS \cup RASTER_EXTENSIONS : EndsWith(file, ext)
    /\ ~StartsWith(file, <<".">>)

IsVector(full_path) ==
    \E ext \in VECTOR_EXTENSIONS : EndsWith(Basename(full_path), ext)

\* layer.GetExtent() of a vector file, in the units of its own CRS: the
\* tuple (minx, maxx, miny, maxy)
GetExtent(full_path) == <<1000, 2000, 500, 800>>

\* ds.GetGeoTransform(), ds.RasterXSize and ds.RasterYSize of a raster file:
\* a north-up grid in the units of its own CRS, or, for a file that holds
\* no georeferencing, the grid of its pixels
GeoTransform(georeferenced) ==
    IF georeferenced THEN <<-100, 1, 0, 100, 0, -1>> ELSE <<0, 1, 0, 0, 0, 1>>
RasterXSize == 200
RasterYSize == 200

\* the bbox run() computes from the geotransform
RasterExtent(georeferenced) ==
    LET geotransform == GeoTransform(georeferenced)
        minx == geotransform[1]
        maxy == geotransform[4]
        maxx == minx + RasterXSize * geotransform[2]
        miny == maxy + RasterYSize * geotransform[6]
    IN <<minx, miny, maxx, maxy>>

\* point.Transform(transform) on one coordinate: the CRS of the files
\* counts in hundredths of a degree
Transform(x) == x \div 100

\* the bbox run() builds from the two transformed corners
Reprojected(full_path) ==
    IF IsVector(full_path)
    THEN LET bbox == GetExtent(full_path)
         IN <<Transform(bbox[1]), Transform(bbox[3]),
              Transform(bbox[2]), Transform(bbox[4])>>
    ELSE LET bbox == RasterExtent(TRUE)
         IN <<Transform(bbox[1]), Transform(bbox[2]),
              Transform(bbox[3]), Transform(bbox[4])>>

\* the bbox run() keeps when source_crs.isValid() is false: the extent as
\* the reader gave it
Unprojected(full_path) ==
    IF IsVector(full_path) THEN GetExtent(full_path) ELSE RasterExtent(FALSE)

\* What the stat call and the format readers give for a path: the record
\* IndexingTask.run appends when nothing fails
FileRecord(full_path) ==
    [path |-> full_path,
     last_accessed |-> IF IsVector(full_path) THEN 100 ELSE 4000,
     type |-> IF IsVector(full_path) THEN "vector" ELSE "raster",
     geometry_type |-> IF IsVector(full_path) THEN "Polygon" ELSE "None",
     bbox |-> Reprojected(full_path)]

----------------------------------------------------------------------------
(* IndexingTask *)

\* IndexingTask.__init__; pc and level are the position of run(), and
\* files_to_index its local list.  A task the task manager has not started
\* yet stands at the first cancellation poll of run().
NewTask(dir_path) ==
    [dir_path |-> dir_path,
     pc |-> "walk",
     canceled |-> FALSE,
     level |-> 1,
     files_to_index |-> << >>,
     files |-> << >>,
     filename_trigrams |-> << >>,
     exception |-> "None",
     processed_files |-> 0,
     progress |-> 0,
     result |-> "none",
     pending |-> << >>,      \* rows the connection of run() has not committed
     opened |-> {},          \* paths handed to ogr.Open / gdal.Open
     seen |-> {},            \* paths the processing loop has taken up
     observed |-> << >>]     \* the arguments task_completed was called with

TaskIds == 1..Len(tasks)

\* neither completed nor terminated
InFlight(t) == tasks[t].pc \in {"walk", "process", "trigram"}

\* run() returns: its local variables are gone, the task's fields stay
Returned(ts, t, result) ==
    [ts EXCEPT ![t].pc = "returned", ![t].result = result,
               ![t].level = 0, ![t].files_to_index = << >>]

\* dict[key] = value
DictPut(d, k, v) == [x \in DOMAIN d \cup {k} |-> IF x = k THEN v ELSE d[x]]

\* QgsTask.cancel(): sets the flag that isCanceled() reads
TaskCancel(t) ==
    /\ InFlight(t)
    /\ ~tasks[t].canceled
    /\ tasks' = [tasks EXCEPT ![t].canceled = TRUE]
    /\ UNCHANGED <<fs, files, filename_trigrams, index_task, index_task_trash,
                   ret>>
    /\ UNCHANGED taskVars
    /\ UNCHANGED diskVars

\* mutant of isCanceled: the poll never sees the flag
isCanceled_Never(t) == FALSE

\* self.isCanceled() at the polls of run()
isCanceled(t) == tasks[t].canceled

\* one iteration of the enumeration loop of run(); the loop ends with the
\* last level os.walk yields
WalkStep(t) ==
    /\ tasks[t].pc = "walk"
    /\ LET levels == WalkOf(tasks[t].dir_path)
           k == tasks[t].level
           after == IF k >= Len(levels) THEN "process" ELSE "walk"
       IN IF k > Len(levels)
          THEN tasks' = [tasks EXCEPT ![t].pc = "process"]
          ELSE IF isCanceled(t)
          THEN tasks' = Returned(tasks, t, "false")
          ELSE IF IsHiddenRoot(levels[k].root)
          THEN tasks' = [tasks EXCEPT ![t].level = k + 1, ![t].pc = after]
          ELSE LET found == SelectSeq(levels[k].files, IsCandidate)
               IN tasks' = [tasks EXCEPT
                      ![t].level = k + 1,
                      ![t].pc = after,
                      ![t].files_to_index = @ \o
                          [i \in 1..Len(found) |->
                              PathJoin(levels[k].root, found[i])]]
    /\ UNCHANGED <<fs, files, filename_trigrams, index_task, index_task_trash,
                   ret>>
    /\ UNCHANGED taskVars
    /\ UNCHANGED diskVars

\* the processing loop goes on to its next file, or run() returns True
\* behind the last one
NextFile(ts, t) ==
    IF ts[t].processed_files >= Len(ts[t].files_to_index)
    THEN Returned(ts, t, "true")
    ELSE [ts EXCEPT ![t].pc = "process"]

\* mutant of Percent: the quotient is cut to an integer before it is scaled
Percent_CutFirst(processed_files, total) == 100 * (processed_files \div total)

\* int(100 * self.processed_files / len(files_to_index))
Percent(processed_files, total) == (100 * processed_files) \div total

\* FindType; 0 stands for the NULL of column geometry_type
FIND_RASTER == 1
FIND_VECTOR_POINT == 2
FIND_VECTOR_LINE == 3
FIND_VECTOR_POLYGON == 4

\* hash_file_path: the first 8 bytes of the sha1 of the path, which tell
\* the paths of the model apart
hash_file_path(file_path) == file_path

\* the values of column file_path_hash in a table
Keys(table) == {table[i].file_path_hash : i \in 1..Len(table)}

\* SELECT ... WHERE file_path_hash = ? and fetchone(): the first such row
RowAt(table, h) ==
    table[CHOOSE i \in 1..Len(table) :
              /\ table[i].file_path_hash = h
              /\ \A j \in 1..(i - 1) : table[j].file_path_hash # h]

\* mutant of InsertOrReplace: a plain INSERT into a table without the key
InsertOrReplace_Insert(table, row) == Append(table, row)

\* INSERT OR REPLACE INTO files, file_path_hash being the PRIMARY KEY: the
\* row of that key, if any, is deleted and the new row is added
InsertOrReplace(table, row) ==
    Append(SelectSeq(table,
                     LAMBDA r : r.file_path_hash # row.file_path_hash), row)

\* mutant of Merge: the table becomes the rows of the connection alone
Merge_OwnOnly(committed, own) == own

RECURSIVE Merge(_, _)
\* the table as one connection sees it: the committed rows with its own
\* writes carried out on them in order
Merge(committed, own) ==
    IF own = << >> THEN committed
    ELSE Merge(InsertOrReplace(committed, Head(own)), Tail(own))

\* the geometry_type column run() writes for a record
FindTypeOf(file_type, geom_type) ==
    IF file_type = "raster" THEN FIND_RASTER
    ELSE IF geom_type = "Point" THEN FIND_VECTOR_POINT
    ELSE IF geom_type = "Line String" THEN FIND_VECTOR_LINE
    ELSE IF geom_type = "Polygon" THEN FIND_VECTOR_POLYGON
    ELSE 0

\* the row run() inserts for a record whose bbox is not None
RowOf(rec) ==
    [file_path_hash |-> hash_file_path(rec.path),
     bbox |-> rec.bbox,
     geometry_type |-> FindTypeOf(rec.type, rec.geometry_type)]

\* the record run() builds from a row of the table
CachedRecord(full_path, row) ==
    LET find_type == row.geometry_type
    IN [path |-> full_path,
        last_accessed |-> FileRecord(full_path).last_accessed,
        type |-> IF find_type = FIND_RASTER THEN "raster"
                 ELSE IF find_type # 0 THEN "vector" ELSE "None",
        geometry_type |-> IF find_type = FIND_VECTOR_POINT THEN "point"
                          ELSE IF find_type = FIND_VECTOR_LINE THEN "line"
                          ELSE IF find_type = FIND_VECTOR_POLYGON THEN "polygon"
                          ELSE "None",
        bbox |-> row.bbox]

\* mutant of Committed: the rows are committed however run() ends
Committed_Always(ts, t) ==
    IF USE_SQLITE /\ ts[t].pc = "returned"
    THEN Merge(sqlite_files, ts[t].pending)
    ELSE sqlite_files

\* conn.commit() when run() returns True; a connection closed or dropped
\* before that loses its rows
Committed(ts, t) ==
    IF USE_SQLITE /\ ts[t].pc = "returned" /\ ts[t].result = "true"
    THEN Merge(sqlite_files, ts[t].pending)
    ELSE sqlite_files

\* mutant of ShouldInsert: the backend is not asked for
ShouldInsert_NoBackendTest(bbox) == bbox # << >>

\* if USE_SQLITE and bbox is not None
ShouldInsert(bbox) == USE_SQLITE /\ bbox # << >>

\* another connection has written and not committed: it holds the write lock
WriteLocked(t) ==
    \E u \in TaskIds : u # t /\ InFlight(u) /\ tasks[u].pending # << >>

Outcomes == {"ok", "stat_raises", "unreadable", "transform_failed",
             "db_locked"}

\* the outcomes with those of a dataset without layer and of a file without
\* a valid CRS
WalkOutcomes == Outcomes \cup {"no_layer", "no_crs"}

\* one iteration of the processing loop of run() up to files.append.
\* outcome is what the file system and the readers do for the file: "ok",
\* "stat_raises" (the file is gone: os.stat raises, run() catches it and
\* returns False), "unreadable" (ogr.Open / gdal.Open gives None),
\* "no_layer" (the dataset of a vector file has no layer: GetLayer(0) gives
\* None, layer.GetGeomType() raises outside the inner try and run() returns
\* False), "no_crs" (source_crs.isValid() is false: the extent stays as the
\* reader gave it), "transform_failed" (Transform raises, or a vector layer
\* has no spatial reference at all and ExportToWkt raises: bbox is None),
\* "db_locked" (the INSERT times out on the write lock of another connection
\* and raises)
ProcessStep(t, outcome) ==
    /\ tasks[t].pc = "process"
    /\ LET todo == tasks[t].files_to_index
           k == tasks[t].processed_files + 1
       IN IF k > Len(todo)
          THEN outcome = "ok" /\ tasks' = Returned(tasks, t, "true")
          ELSE IF isCanceled(t)
          THEN outcome = "ok" /\ tasks' = Returned(tasks, t, "false")
          ELSE LET full_path == todo[k]
                   rec == FileRecord(full_path)
                   table == Merge(sqlite_files, tasks[t].pending)
                   needle_file_hash == hash_file_path(full_path)
                   counted == [tasks EXCEPT
                       ![t].processed_files = k,
                       ![t].progress = Percent(k, Len(todo)),
                       ![t].seen = @ \cup {full_path}]
                   opened == [counted EXCEPT ![t].opened = @ \cup {full_path}]
                   nobbox == [rec EXCEPT !.bbox = << >>]
                   native == [rec EXCEPT !.bbox = Unprojected(full_path)]
               IN IF outcome = "stat_raises"
                  THEN tasks' = [Returned(counted, t, "false") EXCEPT
                                      ![t].exception = "OSError"]
                  ELSE IF USE_SQLITE /\ needle_file_hash \in Keys(table)
                  THEN /\ outcome = "ok"
                       /\ tasks' = [counted EXCEPT
                              ![t].files = Append(@, CachedRecord(full_path,
                                            RowAt(table, needle_file_hash))),
                              ![t].pc = "trigram"]
                  ELSE CASE outcome = "unreadable" ->
                            IF rec.type = "vector"
                            THEN tasks' = NextFile(opened, t)
                            ELSE tasks' = [opened EXCEPT
                                     ![t].files = Append(@, nobbox),
                                     ![t].pc = "trigram"]
                         [] outcome = "no_layer" ->
                            /\ rec.type = "vector"
                            /\ tasks' = [Returned(opened, t, "false") EXCEPT
                                   ![t].exception = "AttributeError"]
                         [] outcome = "no_crs" ->
                            /\ ShouldInsert(native.bbox) => ~WriteLocked(t)
                            /\ tasks' = [opened EXCEPT
                                   ![t].files = Append(@, native),
                                   ![t].pc = "trigram",
                                   ![t].pending =
                                       IF ShouldInsert(native.bbox)
                                       THEN InsertOrReplace(@, RowOf(native))
                                       ELSE @]
                         [] outcome = "transform_failed" ->
                            tasks' = [opened EXCEPT
                                ![t].files = Append(@, nobbox),
                                ![t].pc = "trigram"]
                         [] outcome = "db_locked" ->
                            /\ USE_SQLITE /\ WriteLocked(t)
                            /\ tasks' = [Returned(opened, t, "false") EXCEPT
                                   ![t].exception = "OperationalError"]
                         [] OTHER ->
                            /\ ShouldInsert(rec.bbox) => ~WriteLocked(t)
                            /\ tasks' = [opened EXCEPT
                                   ![t].files = Append(@, rec),
                                   ![t].pc = "trigram",
                                   ![t].pending =
                                       IF ShouldInsert(rec.bbox)
                                       THEN InsertOrReplace(@, RowOf(rec))
                                       ELSE @]
    /\ sqlite_files' = Committed(tasks', t)
    /\ UNCHANGED <<fs, files, filename_trigrams, index_task, index_task_trash,
                   ret, USE_SQLITE, indexed_before>>
    /\ UNCHANGED taskVars

\* self.filename_trigrams[full_path] = get_trigrams(full_path)
TrigramStep(t) ==
    /\ tasks[t].pc = "trigram"
    /\ LET full_path == tasks[t].files_to_index[tasks[t].processed_files]
       IN tasks' = NextFile([tasks EXCEPT
              ![t].filename_trigrams = DictPut(@, full_path,
                                               get_trigrams(full_path))], t)
    /\ sqlite_files' = Committed(tasks', t)
    /\ UNCHANGED <<fs, files, filename_trigrams, index_task, index_task_trash,
                   ret, USE_SQLITE, indexed_before>>
    /\ UNCHANGED taskVars

----------------------------------------------------------------------------
(* humanize_atime and BBoxFinder *)

Times == {5000}                     \* values of int(time()) at a search

\* mutant of humanize_atime: months are tried before years
humanize_atime_MonthsFirst(atime, now) ==
    LET delta == now - atime
        minutes == delta \div 60
        hours == minutes \div 60
        days == hours \div 24
        months == days \div 30
        years == days \div 365
    IN IF months > 0 THEN <<months, "months ago">>
       ELSE IF years > 0 THEN <<years, "years ago">>
       ELSE IF days > 0 THEN <<days, "days ago">>
       ELSE IF hours > 0 THEN <<hours, "hours ago">>
       ELSE <<minutes, "minutes ago">>

humanize_atime(atime, now) ==
    LET delta == now - atime
        minutes == delta \div 60
        hours == minutes \div 60
        days == hours \div 24
        months == days \div 30
        years == days \div 365
    IN IF years > 0 THEN <<years, "years ago">>
       ELSE IF months > 0 THEN <<months, "months ago">>
       ELSE IF days > 0 THEN <<days, "days ago">>
       ELSE IF hours > 0 THEN <<hours, "hours ago">>
       ELSE <<minutes, "minutes ago">>

\* rows of regions_and_countries.csv (name, minx, miny, maxx, maxy)
RegionRows ==
    << [name |-> "Europe", bbox |-> <<-25, 34, 45, 72>>],
       [name |-> "Gulf of Guinea", bbox |-> <<-10, -10, 30, 30>>],
       [name |-> "Atlantis", bbox |-> <<5, 5, 25, 25>>] >>

\* BBoxFinder.__init__: names and bboxes, "Null Island" first
Regions ==
    << [name |-> "Null Island", bbox |-> <<-3, -3, 3, 3>>] >> \o RegionRows

Area(b) == (b[3] - b[1]) * (b[4] - b[2])

\* mutant of find_containing_bbox: the first containing region is taken
find_containing_bbox_First(query_bbox) ==
    LET contains == {i \in 1..Len(Regions) :
                        /\ Regions[i].bbox[1] <= query_bbox[1]
                        /\ Regions[i].bbox[2] <= query_bbox[2]
                        /\ Regions[i].bbox[3] >= query_bbox[3]
                        /\ Regions[i].bbox[4] >= query_bbox[4]}
    IN IF contains = {} THEN "World"
       ELSE Regions[CHOOSE i \in contains : \A j \in contains : i <= j].name

find_containing_bbox(query_bbox) ==
    LET contains == {i \in 1..Len(Regions) :
                        /\ Regions[i].bbox[1] <= query_bbox[1]
                        /\ Regions[i].bbox[2] <= query_bbox[2]
                        /\ Regions[i].bbox[3] >= query_bbox[3]
                        /\ Regions[i].bbox[4] >= query_bbox[4]}
    IN IF contains = {} THEN "World"
       ELSE LET min_area_idx == CHOOSE i \in contains :
                    \A j \in contains :
                        \/ Area(Regions[i].bbox) < Area(Regions[j].bbox)
                        \/ Area(Regions[i].bbox) = Area(Regions[j].bbox) /\ i <= j
            IN Regions[min_area_idx].name

----------------------------------------------------------------------------
(* KueFind *)

\* the list and the dict a reference stands for
ListOf(ref) == IF ref = 0 THEN << >> ELSE tasks[ref].files
DictOf(ref) == IF ref = 0 THEN << >> ELSE tasks[ref].filename_trigrams

Queries == { << >>, <<" ">>, <<"a">>, <<"B", ".", "S", "H", "P">>,
             <<" ", "a", ".", "t", "i", "f", " ", " ", "h">> }
Limits == {0, 1, 12}

\* the calls search(query, n) the user makes: every query with the default
\* limit, and the limits that cut the list short
Calls ==
    {<<q, 12>> : q \in Queries}
        \cup {<< <<"B", ".", "S", "H", "P">>, 0>>,
              << <<"B", ".", "S", "H", "P">>, 1>>, << << >>, 1>>}

\* s[:n]
Take(s, n) ==
    IF n >= 0 THEN SubSeq(s, 1, IF n < Len(s) THEN n ELSE Len(s))
    ELSE SubSeq(s, 1, Len(s) + n)

\* mutant of similarity: the intersection is set against the query alone
similarity_OverQuery(query, candidate) ==
    LET query_trigrams == get_trigrams(query)
        file_trigrams == get_trigrams(candidate)
    IN <<Cardinality(query_trigrams \cap file_trigrams),
         Cardinality(query_trigrams)>>

\* the similarity score_filename computes for two strings, as the fraction
\* <<numerator, denominator>>: intersection / union of their trigram sets,
\* or 0 when the union is empty
similarity(query, candidate) ==
    LET query_trigrams == get_trigrams(query)
        file_trigrams == get_trigrams(candidate)
        intersection == Cardinality(query_trigrams \cap file_trigrams)
        union == Cardinality(query_trigrams \cup file_trigrams)
    IN IF union > 0 THEN <<intersection, union>> ELSE <<0, 1>>

\* score_filename as the pair (intersection, union); the key is
\* -intersection / union, or 0 when the union is empty
Score(query_words, file_trigrams) ==
    LET query_trigrams == get_trigrams(JoinWords(query_words))
    IN <<Cardinality(query_trigrams \cap file_trigrams),
         Cardinality(query_trigrams \cup file_trigrams)>>

\* mutant of KeyLeq: key(a) < key(b), which turns ties round
KeyLeq_Strict(a, b) ==
    LET ia == IF a[2] > 0 THEN a[1] ELSE 0
        ua == IF a[2] > 0 THEN a[2] ELSE 1
        ib == IF b[2] > 0 THEN b[1] ELSE 0
        ub == IF b[2] > 0 THEN b[2] ELSE 1
    IN ia * ub > ib * ua

\* key(a) <= key(b), both unions being positive or the key 0
KeyLeq(a, b) ==
    LET ia == IF a[2] > 0 THEN a[1] ELSE 0
        ua == IF a[2] > 0 THEN a[2] ELSE 1
        ib == IF b[2] > 0 THEN b[1] ELSE 0
        ub == IF b[2] > 0 THEN b[2] ELSE 1
    IN ia * ub >= ib * ua

RECURSIVE InsertByKey(_, _, _)
\* insert index x behind every index whose key is not greater than its own
InsertByKey(order, x, keys) ==
    IF order = << >> THEN <<x>>
    ELSE IF KeyLeq(keys[Head(order)], keys[x])
    THEN <<Head(order)>> \o InsertByKey(Tail(order), x, keys)
    ELSE <<x>> \o order

RECURSIVE SortOrder(_, _)
\* the order sorted(..., key=...) gives the first k items: ascending, stable
SortOrder(keys, k) ==
    IF k = 0 THEN << >>
    ELSE InsertByKey(SortOrder(keys, k - 1), k, keys)

\* the ranking pipeline of search(): the value returned, or the exception
Rank(query, n, now) ==
    LET query_words == SplitWords(LowerStr(query))
        served == ListOf(files)
        trigrams == DictOf(filename_trigrams)
        keys == [i \in 1..Len(served) |->
                    Score(query_words, trigrams[served[i].path])]
        order == SortOrder(keys, Len(served))
        sorted == [i \in 1..Len(served) |-> served[order[i]]]
    IN IF \E i \in 1..Len(served) : served[i].path \notin DOMAIN trigrams
       THEN [kind |-> "raise", val |-> <<"KeyError">>]
       ELSE LET results == Take(sorted, n)
            IN [kind |-> "list",
                val |-> [i \in 1..Len(results) |->
                    <<results[i].path,
                      humanize_atime(results[i].last_accessed, now),
                      results[i].type,
                      results[i].geometry_type,
                      IF Len(results[i].bbox) > 0
                      THEN find_containing_bbox(results[i].bbox)
                      ELSE "">>]]

\* mutant of index: the task is not kept in self.index_task
index_TaskNotKept(dir_path) ==
    /\ tasks' = Append(tasks, NewTask(dir_path))
    /\ index_task' = index_task
    /\ index_task_trash' = Append(index_task_trash, Len(tasks) + 1)

\* KueFind.index(dir_path): builds the task, connects task_completed to its
\* two signals and hands it to the task manager
index(dir_path) ==
    /\ tasks' = Append(tasks, NewTask(dir_path))
    /\ index_task' = Len(tasks) + 1
    /\ index_task_trash' = Append(index_task_trash, Len(tasks) + 1)

\* mutant of ShouldIndex: the test of index_task is left out
ShouldIndex_NoTaskTest == DOMAIN DictOf(filename_trigrams) = {}

\* the condition under which search() starts indexing
ShouldIndex == DOMAIN DictOf(filename_trigrams) = {} /\ index_task = 0

\* KueFind.search(query, n)
Search(query, n, now) ==
    /\ IF ShouldIndex
       THEN /\ Len(tasks) < MaxTasks
            /\ index(HomeDir)
            /\ ret' = [op |-> "search", kind |-> "list", val |-> << >>,
                       started |-> TRUE]
            /\ UNCHANGED <<fs, files, filename_trigrams>>
       ELSE /\ ret' = [op |-> "search", started |-> FALSE]
                      @@ Rank(query, n, now)
            /\ UNCHANGED <<fs, tasks, files, filename_trigrams, index_task,
                           index_task_trash>>
    /\ UNCHANGED taskVars
    /\ UNCHANGED diskVars

\* a caller other than search() calls KueFind.index(dir_path)
Index(dir_path) ==
    /\ Len(tasks) < MaxTasks
    /\ index(dir_path)
    /\ ret' = [op |-> "index", kind |-> "none", val |-> << >>,
               started |-> TRUE]
    /\ UNCHANGED <<fs, files, filename_trigrams>>
    /\ UNCHANGED taskVars
    /\ UNCHANGED diskVars

\* KueSidebar.onTextUpdate("/find ..."): it calls
\* search(query, filter_for_map_canvas=...), a keyword search() does not
\* take, so the call raises TypeError before search() runs
OnTextUpdate ==
    /\ ret' = [op |-> "onTextUpdate", kind |-> "raise", val |-> <<"TypeError">>,
               started |-> FALSE]
    /\ UNCHANGED <<fs, tasks, files, filename_trigrams, index_task,
                   index_task_trash>>
    /\ UNCHANGED taskVars
    /\ UNCHANGED diskVars

\* what taskCompleted and taskTerminated hand to their slot: the signals
\* carry no argument, so exception and result keep their defaults
SignalArguments == [exception |-> "None", result |-> "None"]

\* IndexingTask.finished(result)
finished(ts, t) ==
    IF ts[t].result = "true" /\ ~ts[t].canceled
    THEN [ts EXCEPT ![t].progress = 100]
    ELSE ts

\* mutant of task_completed: the trigram cache is not replaced
task_completed_FilesOnly ==
    /\ files' = index_task
    /\ filename_trigrams' = filename_trigrams
    /\ index_task' = 0
    /\ ret' = [op |-> "signal", kind |-> "none", val |-> << >>,
               started |-> FALSE]

\* task_completed() of index(), the slot of taskCompleted and of
\* taskTerminated.  Neither signal carries an argument, so exception is None
\* in both; self.index_task is read when the slot runs.
task_completed ==
    IF index_task = 0
    THEN \* None has no attribute files
         /\ ret' = [op |-> "signal", kind |-> "raise",
                    val |-> <<"AttributeError">>, started |-> FALSE]
         /\ UNCHANGED <<files, filename_trigrams, index_task>>
    ELSE /\ files' = index_task
         /\ filename_trigrams' = index_task
         /\ index_task' = 0
         /\ ret' = [op |-> "signal", kind |-> "none", val |-> << >>,
                    started |-> FALSE]

\* the main thread handles the end of task t: finished(result), then the
\* signal taskCompleted (run() returned True) or taskTerminated
TaskSignal(t) ==
    /\ tasks[t].pc = "returned"
    /\ tasks' = [finished(tasks, t) EXCEPT ![t].pc = "done",
                                           ![t].observed = SignalArguments]
    /\ task_completed
    /\ UNCHANGED <<fs, index_task_trash>>
    /\ UNCHANGED taskVars
    /\ UNCHANGED diskVars

\* KueFind.__init__
NewFinder ==
    /\ tasks = << >>
    /\ files = 0
    /\ filename_trigrams = 0
    /\ index_task = 0
    /\ index_task_trash = << >>
    /\ ret = [op |-> "init", kind |-> "none", val |-> << >>,
              started |-> FALSE]

----------------------------------------------------------------------------
(* json.JSONDecoder().raw_decode on the characters the replies are made of: *)
(* objects, arrays and strings; the replies hold no digit, no backslash and *)
(* no literal, so a value starting otherwise is a JSONDecodeError.          *)
(* Positions are 1-based; a result is [ok, val, end], end being the position *)
(* behind the value.                                                        *)

Fail == [ok |-> FALSE, val |-> << >>, end |-> 0]

CharAt(s, i) == IF i >= 1 /\ i <= Len(s) THEN s[i] ELSE ""

RECURSIVE SkipWs(_, _)
SkipWs(s, i) == IF IsSpace(CharAt(s, i)) THEN SkipWs(s, i + 1) ELSE i

RECURSIVE ScanString(_, _, _)
\* scanstring: i is behind the opening quote, begin the first character
ScanString(s, begin, i) ==
    IF i > Len(s) THEN Fail
    ELSE IF s[i] = "\"" THEN
        [ok |-> TRUE, val |-> [t |-> "string", v |-> SubSeq(s, begin, i - 1)],
         end |-> i + 1]
    ELSE IF s[i] \in {"\n", "\r", "\t", "\\"} THEN Fail
    ELSE ScanString(s, begin, i + 1)

RECURSIVE DictOfPairs(_)
\* dict(pairs): a key keeps its first place and its last value
DictOfPairs(pairs) ==
    IF pairs = << >> THEN << >>
    ELSE LET front == DictOfPairs(SubSeq(pairs, 1, Len(pairs) - 1))
             last == pairs[Len(pairs)]
         IN IF \E i \in 1..Len(front) : front[i].k = last.k
            THEN [i \in 1..Len(front) |->
                     IF front[i].k = last.k THEN last ELSE front[i]]
            ELSE Append(front, last)

Digits == {"0", "1", "2", "3", "4", "5", "6", "7", "8", "9"}

RECURSIVE DigitsEnd(_, _)
\* the index behind the digits that start at i
DigitsEnd(s, i) == IF CharAt(s, i) \in Digits THEN DigitsEnd(s, i + 1) ELSE i

\* NUMBER_RE on an integer without sign: 0, or a digit from 1 with digits
ScanNumber(s, i) ==
    LET end == IF s[i] = "0" THEN i + 1 ELSE DigitsEnd(s, i)
    IN [ok |-> TRUE, val |-> [t |-> "number", v |-> SubSeq(s, i, end - 1)],
        end |-> end]

RECURSIVE ScanOnce(_, _), ObjectMembers(_, _, _), ArrayElements(_, _, _)

\* JSONObject: i is at the opening quote of a key
ObjectMembers(s, i, pairs) ==
    IF CharAt(s, i) # "\"" THEN Fail
    ELSE LET key == ScanString(s, i + 1, i + 1)
         IN IF ~key.ok THEN Fail
            ELSE LET colon == SkipWs(s, key.end)
                 IN IF CharAt(s, colon) # ":" THEN Fail
                    ELSE LET value == ScanOnce(s, SkipWs(s, colon + 1))
                         IN IF ~value.ok THEN Fail
                            ELSE LET next == SkipWs(s, value.end)
                                     all == Append(pairs, [k |-> key.val.v,
                                                           v |-> value.val])
                                 IN IF CharAt(s, next) = "}"
                                    THEN [ok |-> TRUE,
                                          val |-> [t |-> "object",
                                                   v |-> DictOfPairs(all)],
                                          end |-> next + 1]
                                    ELSE IF CharAt(s, next) = ","
                                    THEN ObjectMembers(s, SkipWs(s, next + 1), all)
                                    ELSE Fail

\* JSONArray: i is at the first character of an element
ArrayElements(s, i, values) ==
    LET value == ScanOnce(s, i)
    IN IF ~value.ok THEN Fail
       ELSE LET next == SkipWs(s, value.end)
                all == Append(values, value.val)
            IN IF CharAt(s, next) = "]"
               THEN [ok |-> TRUE, val |-> [t |-> "array", v |-> all],
                     end |-> next + 1]
               ELSE IF CharAt(s, next) = ","
               THEN ArrayElements(s, SkipWs(s, next + 1), all)
               ELSE Fail

\* scan_once
ScanOnce(s, i) ==
    CASE CharAt(s, i) = "\"" -> ScanString(s, i + 1, i + 1)
      [] CharAt(s, i) = "{" ->
            LET first == SkipWs(s, i + 1)
            IN IF CharAt(s, first) = "}"
               THEN [ok |-> TRUE, val |-> [t |-> "object", v |-> << >>],
                     end |-> first + 1]
               ELSE ObjectMembers(s, first, << >>)
      [] CharAt(s, i) = "[" ->
            LET first == SkipWs(s, i + 1)
            IN IF CharAt(s, first) = "]"
               THEN [ok |-> TRUE, val |-> [t |-> "array", v |-> << >>],
                     end |-> first + 1]
               ELSE ArrayElements(s, first, << >>)
      [] CharAt(s, i) \in Digits -> ScanNumber(s, i)
      [] OTHER -> Fail

\* raw_decode(s): the value at the start of s and the 0-based index behind it
raw_decode(s) ==
    LET r == ScanOnce(s, 1)
    IN IF r.ok THEN [ok |-> TRUE, val |-> r.val, end |-> r.end - 1] ELSE Fail

----------------------------------------------------------------------------
(* KueTask: the streaming response decoder *)

Marker == <<"{", "\"", "a", "c", "t", "i", "o", "n", "s", "\"", ":">>

\* str.find: the lowest 0-based index at which sub starts in s, or -1
StrFind(s, sub) ==
    LET hits == {i \in 0..(Len(s) - Len(sub)) :
                    SubSeq(s, i + 1, i + Len(sub)) = sub}
    IN IF hits = {} THEN -1
       ELSE CHOOSE i \in hits : \A j \in hits : i <= j

RECURSIVE Utf8Decode(_)
\* bytes.decode("utf-8", errors="replace").  The replies hold ASCII bytes
\* and the two bytes C3 A9 of U+00E9; a C3 without its A9 and an A9 without
\* its C3 each decode to U+FFFD
Utf8Decode(bytes) ==
    IF bytes = << >> THEN << >>
    ELSE IF bytes[1] = "C3" /\ Len(bytes) >= 2 /\ bytes[2] = "A9"
    THEN <<"U+00E9">> \o Utf8Decode(SubSeq(bytes, 3, Len(bytes)))
    ELSE IF bytes[1] \in {"C3", "A9"}
    THEN <<"U+FFFD">> \o Utf8Decode(Tail(bytes))
    ELSE <<bytes[1]>> \o Utf8Decode(Tail(bytes))

TextSignal(text) == [signal |-> "streamingContentReceived", text |-> text,
                     obj |-> << >>]
ActionSignal(span, obj) == [signal |-> "streamingActionReceived",
                            text |-> span, obj |-> obj]
ChatIdSignal(id) == [signal |-> "chatMessageIdReceived", text |-> id,
                     obj |-> << >>]

\* mutant of AfterObject: one character too many is cut off
AfterObject_OffByOne(buffer, next_index) ==
    SubSeq(buffer, next_index + 2, Len(buffer))

\* self._read_buffer[next_index:]
AfterObject(buffer, next_index) == SubSeq(buffer, next_index + 1, Len(buffer))

\* mutant of Iteration: a decoded object is emitted and left in the buffer
Iteration_KeepsObject(buffer) ==
    LET idx == StrFind(buffer, Marker)
    IN IF idx = -1
       THEN [exit |-> TRUE, buffer |-> << >>,
             out |-> IF buffer # << >> THEN <<TextSignal(buffer)>> ELSE << >>]
       ELSE LET cut == SubSeq(buffer, idx + 1, Len(buffer))
                r == raw_decode(cut)
            IN [exit |-> ~r.ok, buffer |-> cut,
                out |-> IF r.ok
                        THEN <<ActionSignal(SubSeq(cut, 1, r.end), r.val)>>
                        ELSE << >>]

\* one iteration of the while loop of handle_ready_read: whether it leaves
\* the loop, the buffer it leaves and the signals it emits, in order
Iteration(buffer) ==
    LET idx == StrFind(buffer, Marker)
    IN IF idx = -1
       THEN IF buffer # << >>
            THEN [exit |-> TRUE, buffer |-> << >>,
                  out |-> <<TextSignal(buffer)>>]
            ELSE [exit |-> TRUE, buffer |-> buffer, out |-> << >>]
       ELSE LET cut == IF idx > 0 THEN SubSeq(buffer, idx + 1, Len(buffer))
                       ELSE buffer
                out1 == IF idx > 0
                        THEN <<TextSignal(SubSeq(buffer, 1, idx))>>
                        ELSE << >>
                r == raw_decode(cut)
            IN IF ~r.ok THEN [exit |-> TRUE, buffer |-> cut, out |-> out1]
               ELSE [exit |-> FALSE, buffer |-> AfterObject(cut, r.end),
                     out |-> Append(out1, ActionSignal(SubSeq(cut, 1, r.end),
                                                       r.val))]

RECURSIVE DecodeLoop(_, _)
\* the while loop of handle_ready_read: the buffer it leaves and the
\* signals it emits, in order
DecodeLoop(buffer, out) ==
    LET it == Iteration(buffer)
    IN IF it.exit THEN [buffer |-> it.buffer, out |-> out \o it.out]
       ELSE DecodeLoop(it.buffer, out \o it.out)

----------------------------------------------------------------------------
(* The replies the server streams: free text and JSON objects in turn, as   *)
(* text and actions are told apart when the reply is written               *)

Text(bytes) == [kind |-> "text", bytes |-> bytes]
Object(bytes) == [kind |-> "object", bytes |-> bytes]

EmptyActions == Marker \o <<"[", "]", "}">>
OneAction == Marker \o <<" ", "[", "{", "\"", "a", "\"", ":", "\"", "s", "\"",
                         "}", "]", "}">>

Replies ==
    { <<Text(<<"h", " ">>), Object(EmptyActions), Text(<<" ", "w">>)>>,
      <<Object(EmptyActions), Text(<<" ">>), Object(EmptyActions)>>,
      <<Text(<<"h">>), Object(OneAction)>>,
      <<Text(<<"h", "C3", "A9", "{">>), Object(EmptyActions)>> }

\* replies that are not text and complete objects in turn: an occurrence of
\* the marker that starts no JSON object, and an object cut short
BrokenReplies ==
    { <<Text(Marker \o <<"}", "w">>), Object(EmptyActions)>>,
      <<Text(<<"w">> \o Marker \o <<"[">>)>> }

Headers == { << >>, <<"i", "d">> }      \* x-chat-session-id of the reply

RECURSIVE Flatten(_)
Flatten(segments) ==
    IF segments = << >> THEN << >>
    ELSE segments[1].bytes \o Flatten(Tail(segments))

\* handle_ready_read(reply), reply.readAll() giving the next k bytes
ReadyRead(k) ==
    /\ kue.pc = "loop"
    /\ k \in 1..Len(body)
    /\ received.chunks < MaxChunks
    /\ LET data == SubSeq(body, 1, k)
           id_out == IF ~has_sent_chat_message_id /\ sent.header # << >>
                     THEN <<ChatIdSignal(sent.header)>> ELSE << >>
           text == Utf8Decode(data)
           r == DecodeLoop(_read_buffer \o text, << >>)
       IN /\ has_sent_chat_message_id' =
                 (has_sent_chat_message_id \/ sent.header # << >>)
          /\ body' = SubSeq(body, k + 1, Len(body))
          /\ _read_buffer' = r.buffer
          /\ received' = [text |-> received.text \o text,
                          chunks |-> received.chunks + 1]
          /\ emitted' = emitted \o id_out \o r.out
    /\ UNCHANGED <<sent, kue>>
    /\ UNCHANGED plugVars
    /\ UNCHANGED findVars

ErrorSignal(text) == [signal |-> "errorReceived", text |-> text,
                      obj |-> << >>]

\* the HTTP status of a reply that ended in an error, and the setting
\* buntinglabs-kue/auth_token
HttpStatus == {402, 403, 404, 500, 502}
AuthTokens == {"", "token"}

\* mutant of RunOutcome: the reply is looked at before the cancel flag
RunOutcome_ReplyFirst(canceled, status, kue_token) ==
    IF status = 0 THEN [result |-> "true", errors |-> << >>]
    ELSE IF canceled
    THEN [result |-> "false", errors |-> <<ErrorSignal("Request cancelled.")>>]
    ELSE [result |-> "false", errors |-> <<ErrorSignal("Kue error")>>]

\* mutant of RunOutcome: a reply error without a message of its own is
\* logged and not emitted
RunOutcome_SilentOther(canceled, status, kue_token) ==
    IF canceled
    THEN [result |-> "false", errors |-> <<ErrorSignal("Request cancelled.")>>]
    ELSE IF status = 0 THEN [result |-> "true", errors |-> << >>]
    ELSE IF status \in {402, 403, 500, 502}
    THEN [result |-> "false", errors |-> <<ErrorSignal("Kue server error")>>]
    ELSE [result |-> "false", errors |-> << >>]

\* run() behind loop.exec_(): the value it returns and the errors it emits.
\* status is 0 when reply.error() is NoError, else the HTTP status.
RunOutcome(canceled, status, kue_token) ==
    IF canceled
    THEN [result |-> "false", errors |-> <<ErrorSignal("Request cancelled.")>>]
    ELSE IF status = 0 THEN [result |-> "true", errors |-> << >>]
    ELSE [result |-> "false",
          errors |-> <<ErrorSignal(
              CASE status = 402 -> "Kue requires a subscription."
                [] status = 403 /\ kue_token # "" -> "Sign in to buntinglabs.com"
                [] status = 403 /\ kue_token = "" -> "Restart Kue (or QGIS)"
                [] status = 500 -> "Sorry: unexpected bug on Kue's server"
                [] status = 502 -> "Kue server seems to be down"
                [] OTHER -> "Kue error")>>]

\* run() builds the request, posts it and enters loop.exec_()
RunPost ==
    /\ kue.pc = "start"
    /\ kue' = [kue EXCEPT !.pc = "loop"]
    /\ UNCHANGED <<body, _read_buffer, has_sent_chat_message_id, received,
                   emitted, sent>>
    /\ UNCHANGED plugVars
    /\ UNCHANGED findVars

\* building the request raises (a context json.dumps cannot serialise, a
\* request that is no str): except Exception emits the error, returns False
RunRaises ==
    /\ kue.pc = "start"
    /\ emitted' = Append(emitted, ErrorSignal("Kue error"))
    /\ kue' = [kue EXCEPT !.pc = "returned", !.result = "false"]
    /\ UNCHANGED <<body, _read_buffer, has_sent_chat_message_id, received,
                   sent>>
    /\ UNCHANGED plugVars
    /\ UNCHANGED findVars

\* KueTask.cancel(), called from the main thread while run() is under way
KueCancel ==
    /\ kue.pc \in {"loop", "quit"}
    /\ ~kue.canceled
    /\ kue' = [kue EXCEPT !.canceled = TRUE]
    /\ UNCHANGED <<body, _read_buffer, has_sent_chat_message_id, received,
                   emitted, sent>>
    /\ UNCHANGED plugVars
    /\ UNCHANGED findVars

\* the timer of run() fires: isCanceled() and loop.quit()
TimerPoll ==
    /\ kue.pc = "loop"
    /\ kue.canceled
    /\ kue' = [kue EXCEPT !.pc = "quit"]
    /\ UNCHANGED <<body, _read_buffer, has_sent_chat_message_id, received,
                   emitted, sent>>
    /\ UNCHANGED plugVars
    /\ UNCHANGED findVars

\* reply.finished: loop.quit().  A reply that ends without error has
\* delivered its whole body; one that ends in an error may be cut short.
ReplyFinished(status, kue_token) ==
    /\ kue.pc = "loop"
    /\ status = 0 => body = << >>
    /\ status # 403 => kue_token = ""
    /\ kue' = [kue EXCEPT !.pc = "quit", !.finished = TRUE,
                          !.status = status, !.kue_token = kue_token]
    /\ UNCHANGED <<body, _read_buffer, has_sent_chat_message_id, received,
                   emitted, sent>>
    /\ UNCHANGED plugVars
    /\ UNCHANGED findVars

\* run() from the return of loop.exec_() to its own return
RunReturn ==
    /\ kue.pc = "quit"
    /\ LET out == RunOutcome(kue.canceled, kue.status, kue.kue_token)
       IN /\ emitted' = emitted \o out.errors
          /\ kue' = [kue EXCEPT !.pc = "returned", !.result = out.result]
    /\ UNCHANGED <<body, _read_buffer, has_sent_chat_message_id, received,
                   sent>>
    /\ UNCHANGED plugVars
    /\ UNCHANGED findVars

----------------------------------------------------------------------------
(* KuePollingTask: the lines of the polling stream *)

\* json.loads(s): the value of s, which is all of s but for white space
loads(s) ==
    LET r == ScanOnce(s, SkipWs(s, 1))
    IN IF r.ok /\ SkipWs(s, r.end) = Len(s) + 1 THEN r ELSE Fail

RECURSIVE strip(_)
\* str.strip()
strip(line) ==
    IF line = << >> THEN line
    ELSE IF IsSpace(line[1]) THEN strip(Tail(line))
    ELSE IF IsSpace(line[Len(line)])
    THEN strip(SubSeq(line, 1, Len(line) - 1))
    ELSE line

RECURSIVE int(_)
\* int(text) on the digits of a number: ok is FALSE for ValueError
int(text) ==
    LET units == CHOOSE n \in 0..9 :
                     <<"0", "1", "2", "3", "4", "5", "6", "7", "8", "9">>[n + 1]
                         = text[Len(text)]
    IN IF text = << >> \/ \E i \in 1..Len(text) : text[i] \notin Digits
       THEN [ok |-> FALSE, val |-> 0]
       ELSE IF Len(text) = 1 THEN [ok |-> TRUE, val |-> units]
       ELSE [ok |-> TRUE,
             val |-> 10 * int(SubSeq(text, 1, Len(text) - 1)).val + units]

\* reply.readLine(): the bytes up to the first newline, newline included,
\* or every byte there is when none holds a newline
readLine(avail) ==
    LET ends == {i \in 1..Len(avail) : avail[i] = "\n"}
        end == IF ends = {} THEN Len(avail)
               ELSE CHOOSE i \in ends : \A j \in ends : i <= j
    IN [line |-> SubSeq(avail, 1, end),
        rest |-> SubSeq(avail, end + 1, Len(avail))]

\* self.polling_data["kue_action_id"]
KueActionId == [t |-> "string", v |-> <<"7">>]

ActionsKey == <<"a", "c", "t", "i", "o", "n", "s">>
IdKey == <<"k", "u", "e", "_", "a", "c", "t", "i", "o", "n", "_", "i", "d">>

Get(pairs, key) == pairs[CHOOSE i \in 1..Len(pairs) : pairs[i].k = key].v

\* the two loops over json_data["actions"]: ok is FALSE when they raise
\* (KeyError, TypeError, AttributeError), else val is the stamped value
Stamp(json_data) ==
    IF \/ json_data.t # "object"
       \/ \A i \in 1..Len(json_data.v) : json_data.v[i].k # ActionsKey
    THEN [ok |-> FALSE, val |-> json_data]
    ELSE LET actions == Get(json_data.v, ActionsKey)
             Stamped(action) ==
                 [t |-> "object",
                  v |-> [j \in 1..Len(action.v) |->
                            [k |-> action.v[j].k,
                             v |-> [t |-> "object",
                                    v |-> DictOfPairs(Append(
                                        action.v[j].v.v,
                                        [k |-> IdKey, v |-> KueActionId]))]]]]
         IN IF actions.t = "number" THEN [ok |-> FALSE, val |-> json_data]
            ELSE IF actions.t \in {"string", "object"}
            THEN [ok |-> actions.v = << >>, val |-> json_data]
            ELSE IF \E i \in 1..Len(actions.v) :
                        \/ actions.v[i].t # "object"
                        \/ \E j \in 1..Len(actions.v[i].v) :
                               actions.v[i].v[j].v.t # "object"
            THEN [ok |-> FALSE, val |-> json_data]
            ELSE [ok |-> TRUE,
                  val |-> [t |-> "object",
                           v |-> [m \in 1..Len(json_data.v) |->
                                    IF json_data.v[m].k # ActionsKey
                                    THEN json_data.v[m]
                                    ELSE [k |-> ActionsKey,
                                          v |-> [t |-> "array",
                                                 v |-> [i \in 1..Len(actions.v)
                                                        |-> Stamped(actions.v[i])]]]]]]

RECURSIVE PollLoop(_, _)
\* the while loop of KuePollingTask.handle_ready_read on the bytes there
\* are: the progress, the signals emitted, whether the call has raised and
\* the bytes it has left unread
PollLoop(avail, st) ==
    IF avail = << >> THEN [st EXCEPT !.unread = << >>]
    ELSE LET read == readLine(avail)
             line == strip(read.line)
             number == IF line # << >> /\ line[1] = "P"
                       THEN int(Tail(line)) ELSE [ok |-> FALSE, val |-> 0]
             json_data == loads(line)
             stamped == Stamp(json_data.val)
         IN IF number.ok
            THEN PollLoop(read.rest, [st EXCEPT !.progress = number.val])
            ELSE IF ~json_data.ok THEN PollLoop(read.rest, st)
            ELSE IF ~stamped.ok
            THEN [st EXCEPT !.raised = TRUE, !.unread = read.rest]
            ELSE PollLoop(read.rest,
                          [st EXCEPT !.out = Append(@, ActionSignal(
                                                line, stamped.val))])

\* readyRead of the polling reply: k more bytes have come, and
\* handle_ready_read(reply) reads what there is
PollReadyRead(k) ==
    /\ k \in 1..Len(body)
    /\ received.chunks < MaxChunks
    /\ LET data == SubSeq(body, 1, k)
           st == PollLoop(poll.unread \o data,
                          [progress |-> poll.progress, raised |-> poll.raised,
                           unread |-> << >>, out |-> << >>])
       IN /\ body' = SubSeq(body, k + 1, Len(body))
          /\ received' = [text |-> received.text \o data,
                          chunks |-> received.chunks + 1]
          /\ emitted' = emitted \o st.out
          /\ poll' = [progress |-> st.progress, raised |-> st.raised,
                      unread |-> st.unread]
    /\ UNCHANGED <<_read_buffer, has_sent_chat_message_id, sent, kue, geo>>
    /\ UNCHANGED findVars

\* KuePollingTask.__init__: setProgress(0)
NewPoll == [progress |-> 0, raised |-> FALSE, unread |-> << >>]

\* the lines the polling endpoint writes, each with its newline
Line(kind, chars) == [kind |-> kind, bytes |-> chars \o <<"\n">>]

PolledAction == Marker \o <<"[", "{", "\"", "a", "\"", ":", "{", "}", "}", "]", "}">>

PollStreams ==
    { <<Line("progress", <<"P", "1", "2">>), Line("action", PolledAction)>>,
      <<Line("action", PolledAction), Line("other", <<"o", "k">>)>>,
      <<Line("other", <<"{", "}">>), Line("progress", <<"P", "5">>)>> }

----------------------------------------------------------------------------
(* KuePlugin.actionsToResponses: the geoprocessing tasks and the setting *)
(* FILTER_INVALID_GEOMETRIES of Processing                                *)

\* the index of the option "Skip (ignore) features with invalid
\* geometries" among the three options of the setting, where it exists
skip_idx == 1

\* a geoprocessing action: the setting is saved and set, the task is added
GeoStart ==
    /\ Len(geo.tasks) < MaxTasks
    /\ geo' = [geo EXCEPT
                  !.tasks = Append(@, [previous_invalid_setting |-> geo.setting,
                                       state |-> "running"]),
                  !.setting = IF geo.has_skip THEN skip_idx ELSE @]
    /\ UNCHANGED <<body, _read_buffer, has_sent_chat_message_id, received,
                   emitted, sent, kue, poll>>
    /\ UNCHANGED findVars

\* task.executed: completed(successful, results) of task i
GeoCompleted(i, successful) ==
    /\ i \in 1..Len(geo.tasks)
    /\ geo.tasks[i].state = "running"
    /\ geo' = [geo EXCEPT
                  !.setting = geo.tasks[i].previous_invalid_setting,
                  !.tasks[i].state = IF successful THEN "successful"
                                     ELSE "failed"]
    /\ UNCHANGED <<body, _read_buffer, has_sent_chat_message_id, received,
                   emitted, sent, kue, poll>>
    /\ UNCHANGED findVars

\* the plugin before any geoprocessing action, the setting as the user has it
NewGeo(setting, has_skip) ==
    [setting |-> setting, original |-> setting, has_skip |-> has_skip,
     tasks |-> << >>]

\* run() has posted the request and stands in loop.exec_()
NewKueTask == [pc |-> "loop", canceled |-> FALSE, finished |-> FALSE,
               status |-> 0, kue_token |-> "", result |-> "none"]

\* KueTask.__init__, for the reply to one request
NewReply(header, segments) ==
    /\ sent = [header |-> header, segments |-> segments]
    /\ body = Flatten(segments)
    /\ _read_buffer = << >>
    /\ has_sent_chat_message_id = FALSE
    /\ received = [text |-> << >>, chunks |-> 0]
    /\ emitted = << >>

\* no request is under way, nor a polling task or a geoprocessing task
Idle == kue = NewKueTask /\ poll = NewPoll /\ geo = NewGeo(0, TRUE)

NoReply == NewReply(<< >>, << >>) /\ Idle

----------------------------------------------------------------------------
(* The finder: KueFind with its tasks, the task manager and the user *)

\* the plugin is loaded for the first time: sqlite3 can be imported or not,
\* and find_file_index.sqlite does not exist yet
FirstSession ==
    /\ USE_SQLITE \in BOOLEAN
    /\ sqlite_files = << >>
    /\ indexed_before = {}

\* QGIS is closed and started again once every task has ended: a new KueFind
\* is built, find_file_index.sqlite is what the walks have committed
Restart ==
    /\ tasks # << >>
    /\ \A t \in TaskIds : tasks[t].pc = "done"
    /\ tasks' = << >>
    /\ files' = 0
    /\ filename_trigrams' = 0
    /\ index_task' = 0
    /\ index_task_trash' = << >>
    /\ ret' = [op |-> "init", kind |-> "none", val |-> << >>,
               started |-> FALSE]
    /\ indexed_before' = indexed_before \cup
           UNION {tasks[t].seen : t \in {u \in TaskIds :
                      USE_SQLITE /\ tasks[u].result = "true"}}
    /\ UNCHANGED <<fs, USE_SQLITE, sqlite_files>>
    /\ UNCHANGED taskVars

\* as Restart, the user having deleted the geodata files of the home
\* directory while QGIS was closed
RestartAfterDelete ==
    /\ fs # EmptyFS
    /\ tasks # << >>
    /\ \A t \in TaskIds : tasks[t].pc = "done"
    /\ fs' = EmptyFS
    /\ tasks' = << >>
    /\ files' = 0
    /\ filename_trigrams' = 0
    /\ index_task' = 0
    /\ index_task_trash' = << >>
    /\ ret' = [op |-> "init", kind |-> "none", val |-> << >>,
               started |-> FALSE]
    /\ indexed_before' = indexed_before \cup
           UNION {tasks[t].seen : t \in {u \in TaskIds :
                      USE_SQLITE /\ tasks[u].result = "true"}}
    /\ UNCHANGED <<USE_SQLITE, sqlite_files>>
    /\ UNCHANGED taskVars

Init ==
    /\ fs \in FileSystems
    /\ NewFinder
    /\ FirstSession
    /\ NoReply

Next ==
    \/ \E c \in Calls, now \in Times : Search(c[1], c[2], now)
    \/ OnTextUpdate
    \/ \E t \in TaskIds : TaskCancel(t)
    \/ \E t \in TaskIds : WalkStep(t)
    \/ \E t \in TaskIds, o \in Outcomes : ProcessStep(t, o)
    \/ \E t \in TaskIds : TrigramStep(t)
    \/ \E t \in TaskIds : TaskSignal(t)
    \/ Restart

Spec == Init /\ [][Next]_vars

\* the finder with index() open to its callers as search() is, sqlite3
\* being there: walks run side by side, each on its own connection
ApiInit ==
    /\ fs = TwinFS
    /\ NewFinder
    /\ FirstSession /\ USE_SQLITE
    /\ NoReply

ApiNext ==
    \/ Index(HomeDir)
    \/ \E now \in Times : Search(<<"a">>, 12, now)
    \/ \E t \in TaskIds : TaskCancel(t)
    \/ \E t \in TaskIds : WalkStep(t)
    \/ \E t \in TaskIds, o \in {"ok", "db_locked"} : ProcessStep(t, o)
    \/ \E t \in TaskIds : TrigramStep(t)
    \/ \E t \in TaskIds : TaskSignal(t)

SpecApi == ApiInit /\ [][ApiNext]_vars

\* the walks alone: one query starts them, and the readers fail in every
\* way they can
WalkInit ==
    /\ fs \in {DeepFS, TwinFS, EmptyFS}
    /\ NewFinder
    /\ FirstSession
    /\ NoReply

WalkNext ==
    \/ \E now \in Times : Search(<<"a">>, 12, now)
    \/ \E t \in TaskIds : TaskCancel(t)
    \/ \E t \in TaskIds : WalkStep(t)
    \/ \E t \in TaskIds, o \in WalkOutcomes : ProcessStep(t, o)
    \/ \E t \in TaskIds : TrigramStep(t)
    \/ \E t \in TaskIds : TaskSignal(t)
    \/ Restart
    \/ RestartAfterDelete

SpecWalk == WalkInit /\ [][WalkNext]_vars

----------------------------------------------------------------------------
(* The decoder: one KueTask reading its reply as readyRead delivers it *)

StreamInit ==
    /\ fs = EmptyFS
    /\ NewFinder
    /\ FirstSession /\ USE_SQLITE
    /\ \E h \in Headers, r \in Replies : NewReply(h, r)
    /\ Idle

StreamNext == \E k \in 1..Len(body) : ReadyRead(k)

SpecStream == StreamInit /\ [][StreamNext]_vars

\* the decoder fed any reply, broken ones included
StreamAnyInit ==
    /\ fs = EmptyFS
    /\ NewFinder
    /\ FirstSession /\ USE_SQLITE
    /\ \E h \in Headers, r \in Replies \cup BrokenReplies : NewReply(h, r)
    /\ Idle

SpecStreamAny == StreamAnyInit /\ [][StreamNext]_vars

\* the replies of the whole task: one of text and an object, and one that
\* ends inside an object
TaskReplies ==
    { <<Text(<<"h">>), Object(EmptyActions), Text(<<"w">>)>>,
      <<Text(<<"w">> \o Marker \o <<"[">>)>> }

\* KueTask.run() with its event loop: the reply is read as it comes, the
\* user may cancel, the timer polls, the reply finishes
TaskInit ==
    /\ fs = EmptyFS
    /\ NewFinder
    /\ FirstSession /\ USE_SQLITE
    /\ \E r \in TaskReplies : NewReply(<< >>, r)
    /\ kue = [NewKueTask EXCEPT !.pc = "start"]
    /\ poll = NewPoll /\ geo = NewGeo(0, TRUE)

TaskNext ==
    \/ RunPost
    \/ RunRaises
    \/ \E k \in 1..Len(body) : ReadyRead(k)
    \/ KueCancel
    \/ TimerPoll
    \/ \E status \in {0} \cup HttpStatus, kue_token \in AuthTokens :
           ReplyFinished(status, kue_token)
    \/ RunReturn

SpecTask == TaskInit /\ [][TaskNext]_vars

----------------------------------------------------------------------------
(* The polling task reading its reply as readyRead delivers it *)

PollInit ==
    /\ fs = EmptyFS
    /\ NewFinder
    /\ FirstSession /\ USE_SQLITE
    /\ \E lines \in PollStreams : NewReply(<< >>, lines)
    /\ Idle

PollNext == \E k \in 1..Len(body) : PollReadyRead(k)

SpecPoll == PollInit /\ [][PollNext]_vars

----------------------------------------------------------------------------
(* The geoprocessing tasks of the actions of a reply, started as the     *)
(* actions come and completed as the task manager runs them              *)

GeoInit ==
    /\ fs = EmptyFS
    /\ NewFinder
    /\ FirstSession /\ USE_SQLITE
    /\ NewReply(<< >>, << >>)
    /\ kue = NewKueTask /\ poll = NewPoll
    /\ \E setting \in 0..2, has_skip \in BOOLEAN :
           geo = NewGeo(setting, has_skip)

GeoNext ==
    \/ GeoStart
    \/ \E i \in 1..Len(geo.tasks), successful \in BOOLEAN :
           GeoCompleted(i, successful)

SpecGeo == GeoInit /\ [][GeoNext]_vars

----------------------------------------------------------------------------
(* The pure functions of the finder, applied to inputs of their own *)

\* the strings of at most MaxLen characters over a small alphabet
Strings == UNION {[1..k -> {"a", "b", "B"}] : k \in 0..MaxLen}

\* bboxes (minx, miny, maxx, maxy), those of no width or height included
Coordinates == {-30, -4, -1, 1, 3, 8, 12, 40}
Boxes ==
    {b \in Coordinates \X Coordinates \X Coordinates \X Coordinates :
        b[1] <= b[3] /\ b[2] <= b[4]}

\* a call that has not been carried out yet
Pending(op, args) ==
    [op |-> op, kind |-> "call", val |-> args, started |-> FALSE]

\* the expression of score_filename on two strings
SimilarityCall ==
    /\ ret.op = "similarity" /\ ret.kind = "call"
    /\ ret' = [ret EXCEPT !.kind = "value",
                          !.val = @ \o <<similarity(ret.val[1], ret.val[2])>>]
    /\ UNCHANGED <<fs, tasks, files, filename_trigrams, index_task,
                   index_task_trash>>
    /\ UNCHANGED taskVars
    /\ UNCHANGED diskVars

\* bbox_finder.find_containing_bbox(query_bbox)
FindRegionCall ==
    /\ ret.op = "find_containing_bbox" /\ ret.kind = "call"
    /\ ret' = [ret EXCEPT !.kind = "value",
                          !.val = @ \o <<find_containing_bbox(ret.val[1])>>]
    /\ UNCHANGED <<fs, tasks, files, filename_trigrams, index_task,
                   index_task_trash>>
    /\ UNCHANGED taskVars
    /\ UNCHANGED diskVars

\* rows a walk may write, and the tables of at most two rows that hold at
\* most one row for a file_path_hash
CacheRows ==
    {[file_path_hash |-> hash_file_path(path), bbox |-> bbox,
      geometry_type |-> FIND_VECTOR_POLYGON] :
        path \in {PathJoin(HomeDir, Name_b_shp), PathJoin(SubDir, Name_b_shp)},
        bbox \in {<<10, 5, 20, 8>>, <<1000, 2000, 500, 800>>}}
CacheTables ==
    {<< >>} \cup {<<r>> : r \in CacheRows}
        \cup {t \in {<<r, q>> : r \in CacheRows, q \in CacheRows} :
                 t[1].file_path_hash # t[2].file_path_hash}

\* c.execute("INSERT OR REPLACE INTO files ...") on a table
InsertCall ==
    /\ ret.op = "insert_or_replace" /\ ret.kind = "call"
    /\ ret' = [ret EXCEPT !.kind = "value",
                          !.val = @ \o <<InsertOrReplace(ret.val[1],
                                                         ret.val[2])>>]
    /\ UNCHANGED <<fs, tasks, files, filename_trigrams, index_task,
                   index_task_trash>>
    /\ UNCHANGED taskVars
    /\ UNCHANGED diskVars

\* ages in seconds of the files of a result: around each unit, and last
\* access times ahead of the clock
Ages ==
    {-34560000, -3600, -60, -1, 0, 59, 60, 3599, 3600, 7200, 86399, 86400,
     2591999, 2592000, 31103999, 31104000, 31535999, 31536000, 69120000}

\* int(time()) at the call
Clock == {1700000000}

\* humanize_atime(f["last_accessed"])
HumanizeCall ==
    /\ ret.op = "humanize_atime" /\ ret.kind = "call"
    /\ ret' = [ret EXCEPT !.kind = "value",
                          !.val = @ \o <<humanize_atime(ret.val[1],
                                                        ret.val[2])>>]
    /\ UNCHANGED <<fs, tasks, files, filename_trigrams, index_task,
                   index_task_trash>>
    /\ UNCHANGED taskVars
    /\ UNCHANGED diskVars

PureInit ==
    /\ fs = EmptyFS
    /\ tasks = << >>
    /\ files = 0
    /\ filename_trigrams = 0
    /\ index_task = 0
    /\ index_task_trash = << >>
    /\ FirstSession /\ USE_SQLITE
    /\ NoReply
    /\ \/ \E query \in Strings, candidate \in Strings :
              ret = Pending("similarity", <<query, candidate>>)
       \/ \E query_bbox \in Boxes :
              ret = Pending("find_containing_bbox", <<query_bbox>>)
       \/ \E table \in CacheTables, row \in CacheRows :
              ret = Pending("insert_or_replace", <<table, row>>)
       \/ \E now \in Clock, age \in Ages :
              ret = Pending("humanize_atime", <<now - age, now>>)

PureNext ==
    \/ SimilarityCall
    \/ FindRegionCall
    \/ InsertCall
    \/ HumanizeCall

SpecPure == PureInit /\ [][PureNext]_vars

----------------------------------------------------------------------------
(* Claims about the finder *)

\* the tasks of this KueFind that have neither completed nor terminated
Running == {t \in TaskIds : InFlight(t)}

\* C1: when the termination of a walk that was cancelled after it processed
\* at least one file is handled, KueFind.files and KueFind.filename_trigrams
\* stay what they were: nothing the cancelled walk built is served.
C1_CancelledWalkIsDiscarded ==
    [][\A t \in TaskIds :
          (TaskSignal(t) /\ tasks[t].canceled /\ tasks[t].result = "false"
               /\ tasks[t].processed_files >= 1)
          => /\ ListOf(files)' = ListOf(files)
             /\ DictOf(filename_trigrams)' = DictOf(filename_trigrams)]_vars

\* C2: at every moment at most one IndexingTask of the KueFind has neither
\* completed nor terminated.
C2_OneWalkInFlight == Cardinality(Running) <= 1

\* C6: search() never raises for a well-formed call, the sidebar's call with
\* its filter argument included: it returns a list.
C6_SearchNeverRaises ==
    ret.op \in {"search", "onTextUpdate"} => ret.kind = "list"

\* C7: search() called while an IndexingTask is in flight returns an empty
\* list and starts no second IndexingTask.
C7_SearchWhileIndexing ==
    [][\A c \in Calls, now \in Times :
          (Running # {} /\ ret'.op = "search" /\ Search(c[1], c[2], now))
          => /\ ret'.kind = "list"
             /\ ret'.val = << >>
             /\ tasks' = tasks
             /\ index_task' = index_task]_vars

\* C7 witness: search() has returned without starting a task while the walk
\* it found in flight is still in its processing loop
C7_Witness ==
    /\ ret.op = "search"
    /\ ~ret.started
    /\ index_task # 0
    /\ tasks[index_task].pc = "process"
    /\ tasks[index_task].processed_files = 1

\* C8: search() called while the served index is empty and no walk is
\* running starts exactly one IndexingTask rooted at the home directory,
\* leaves index_task set to it and returns an empty list.
C8_SearchWhileIdleAndEmpty ==
    [][\A c \in Calls, now \in Times :
          (ListOf(files) = << >> /\ index_task = 0 /\ ret'.op = "search"
               /\ Search(c[1], c[2], now))
          => /\ tasks' = Append(tasks, NewTask(HomeDir))
             /\ index_task' = Len(tasks')
             /\ tasks'[index_task'].pc = "walk"
             /\ ret'.kind = "list"
             /\ ret'.val = << >>]_vars

\* C8 witness: search() has just started the first walk
C8_Witness ==
    /\ ret.op = "search"
    /\ ret.started
    /\ Len(tasks) = 1
    /\ index_task = 1
    /\ tasks[1] = NewTask(HomeDir)

\* some walk has completed successfully
IndexExists == \E t \in TaskIds : tasks[t].pc = "done" /\ tasks[t].result = "true"

\* C9: once a walk has completed successfully, every later search() runs the
\* ranking pipeline on the served index and starts no IndexingTask, whatever
\* the number of files the walk found.
C9_SearchOnceIndexExists ==
    [][\A c \in Calls, now \in Times :
          (IndexExists /\ ret'.op = "search" /\ Search(c[1], c[2], now))
          => /\ tasks' = tasks
             /\ index_task' = index_task
             /\ ret' = [op |-> "search", started |-> FALSE]
                       @@ Rank(c[1], c[2], now)]_vars

\* every record of KueFind.files has its path in KueFind.filename_trigrams
EveryFileHasTrigrams ==
    \A i \in 1..Len(ListOf(files)) :
        ListOf(files)[i].path \in DOMAIN DictOf(filename_trigrams)

\* the completion of walk t is handled: the served list and dict become
\* those of t and nothing else, and index_task is None
CompletionSwaps(t) ==
    (TaskSignal(t) /\ tasks[t].result = "true")
    => /\ ListOf(files)' = tasks[t].files
       /\ DictOf(filename_trigrams)' = tasks[t].filename_trigrams
       /\ index_task' = 0

\* C10: on successful walk completion the served file list and the trigram
\* cache are replaced together by the completed task's results and
\* index_task is None; at every moment every record of KueFind.files has an
\* entry for its path in KueFind.filename_trigrams.
C10_CompletionReplacesIndex ==
    /\ []EveryFileHasTrigrams
    /\ [][\A t \in TaskIds : CompletionSwaps(t)]_vars

\* C10 witness: the completion of a walk that found two files has been
\* handled and its results are served
C10_Witness ==
    /\ ret.op = "signal"
    /\ index_task = 0
    /\ files # 0
    /\ tasks[files].result = "true"
    /\ Len(ListOf(files)) = 2
    /\ Cardinality(DOMAIN DictOf(filename_trigrams)) = 2

\* fractions <<numerator, denominator>> with positive denominators
FracLess(a, b) == a[1] * b[2] < b[1] * a[2]
FracEq(a, b) == a[1] * b[2] = b[1] * a[2]

\* the similarity of a served file to a query as search() takes it: the
\* query lower-cased, split into words and joined by single spaces
SimilarityTo(query, path) ==
    similarity(JoinWords(SplitWords(LowerStr(query))), path)

\* val is a ranking of the served files for query cut at n
Ranked(query, n, val) ==
    LET served == ListOf(files)
        at(k) == CHOOSE i \in 1..Len(served) : served[i].path = val[k][1]
        sim(i) == SimilarityTo(query, served[i].path)
        returned == {at(k) : k \in 1..Len(val)}
    IN /\ Len(val) <= n
       /\ \A k \in 1..Len(val) :
              \E i \in 1..Len(served) : served[i].path = val[k][1]
       /\ \A k, l \in 1..Len(val) :
              k < l => /\ ~FracLess(sim(at(k)), sim(at(l)))
                       /\ FracEq(sim(at(k)), sim(at(l))) => at(k) < at(l)
       /\ \A i \in (1..Len(served)) \ returned :
              \A k \in 1..Len(val) : ~FracLess(sim(at(k)), sim(i))

\* C11: for a populated index search(query, n) returns at most n results in
\* descending order of trigram similarity to the query; no file left out is
\* strictly more similar than a file returned, and files of equal
\* similarity keep the order they have in the served list.
C11_RankedAndCut ==
    (ListOf(files) # << >> /\ ~ShouldIndex)
    => \A c \in Calls, now \in Times :
           LET r == Rank(c[1], c[2], now)
           IN r.kind = "list" /\ Ranked(c[1], c[2], r.val)

\* C11 witness: search() has cut the ranking of a two-file index to the one
\* file that comes second in the served list
C11_Witness ==
    /\ ret.op = "search"
    /\ Len(ListOf(files)) = 2
    /\ Len(ret.val) = 1
    /\ ret.val[1][1] = ListOf(files)[2].path

\* the score search() gives the i-th served file for a query, as a fraction
ScoreOf(query, i) ==
    LET sc == Score(SplitWords(LowerStr(query)),
                    DictOf(filename_trigrams)[ListOf(files)[i].path])
    IN IF sc[2] > 0 THEN sc ELSE <<0, 1>>

\* C12: the score of an indexed file is the trigram similarity of the query
\* and the file's base name: two served files of one base name in different
\* directories score the same for every query.
C12_ScoreOfBaseName ==
    LET served == ListOf(files)
    IN EveryFileHasTrigrams
       => \A q \in Queries, i \in 1..Len(served) :
              /\ FracEq(ScoreOf(q, i),
                        similarity(JoinWords(SplitWords(LowerStr(q))),
                                   Basename(served[i].path)))
              /\ \A j \in 1..Len(served) :
                     Basename(served[i].path) = Basename(served[j].path)
                     => FracEq(ScoreOf(q, i), ScoreOf(q, j))

\* the region of an active spatial filter: the extent of the map canvas
FilterRegion == <<0, 0, 15, 15>>

\* two boxes (minx, miny, maxx, maxy) have a point in common
Intersects(a, b) ==
    a[1] <= b[3] /\ b[1] <= a[3] /\ a[2] <= b[4] /\ b[2] <= a[4]

\* C13: a search with the spatial filter active, as the sidebar makes it,
\* returns a list, and every file in it has a bbox that intersects the
\* filter region; no file whose bbox is absent is returned.
C13_FilteredSearch ==
    ret.op = "onTextUpdate"
    => /\ ret.kind = "list"
       /\ \A k \in 1..Len(ret.val) :
              \E i \in 1..Len(ListOf(files)) :
                  /\ ListOf(files)[i].path = ret.val[k][1]
                  /\ ListOf(files)[i].bbox # << >>
                  /\ Intersects(ListOf(files)[i].bbox, FilterRegion)

\* C14: the similarity of two strings is the Jaccard index of their trigram
\* sets as get_trigrams gives them: it lies in [0,1], it is the same with the
\* arguments exchanged, and it is 1 for a string of length 3 or more and
\* itself.
C14_SimilarityIsJaccard ==
    (ret.op = "similarity" /\ ret.kind = "value")
    => LET a == ret.val[1]
           b == ret.val[2]
           s == ret.val[3]
           q == get_trigrams(a)
           f == get_trigrams(b)
       IN /\ s[2] > 0 /\ 0 <= s[1] /\ s[1] <= s[2]
          /\ s[1] * Cardinality(q \cup f) = Cardinality(q \cap f) * s[2]
          /\ FracEq(s, similarity(b, a))
          /\ (a = b /\ Len(a) >= 3) => s[1] = s[2]

\* C14 witness: the similarity of two different strings that share some of
\* their trigrams has been taken
C14_Witness ==
    /\ ret.op = "similarity" /\ ret.kind = "value"
    /\ ret.val[1] # ret.val[2]
    /\ 0 < ret.val[3][1]
    /\ ret.val[3][1] < ret.val[3][2]

\* C15: the similarity of two empty strings is 0, and no score divides by
\* zero.
C15_EmptyStringsScoreZero ==
    (ret.op = "similarity" /\ ret.kind = "value")
    => /\ ret.val[3][2] > 0
       /\ (ret.val[1] = << >> /\ ret.val[2] = << >>) => ret.val[3][1] = 0

\* C16: find_containing_bbox(q) names a region that contains q on both axes
\* and has the least area of those that do, and "World" exactly when none
\* does, boxes of no width or height included.
C16_SmallestContainingRegion ==
    (ret.op = "find_containing_bbox" /\ ret.kind = "value")
    => LET q == ret.val[1]
           name == ret.val[2]
           containing == {i \in 1..Len(Regions) :
                             /\ Regions[i].bbox[1] <= q[1]
                             /\ Regions[i].bbox[2] <= q[2]
                             /\ Regions[i].bbox[3] >= q[3]
                             /\ Regions[i].bbox[4] >= q[4]}
       IN /\ (name = "World") <=> (containing = {})
          /\ containing # {}
             => \E i \in containing :
                    /\ Regions[i].name = name
                    /\ \A j \in containing :
                           Area(Regions[i].bbox) <= Area(Regions[j].bbox)

\* C16 witness: a box of no width that lies in two regions has been given
\* the smaller one
C16_Witness ==
    /\ ret.op = "find_containing_bbox" /\ ret.kind = "value"
    /\ ret.val[1] = <<8, 8, 8, 12>>
    /\ ret.val[2] = "Atlantis"

\* what a record says of the file itself
Extracted(rec) ==
    [path |-> rec.path, type |-> rec.type,
     geometry_type |-> rec.geometry_type, bbox |-> rec.bbox]

\* the paths task t took from the cache instead of opening the file
CacheHits(t) ==
    {tasks[t].files[i].path : i \in 1..Len(tasks[t].files)}
        \ tasks[t].opened

\* C17: a record rebuilt from the cache in a later pass has the path, kind,
\* geometry_type and bbox of the record the first pass built from the file
\* (what was put in the cache is what comes out).
C17_CacheRoundTrip ==
    \A t \in TaskIds :
        \A i \in 1..Len(tasks[t].files) :
            tasks[t].files[i].path \in CacheHits(t)
            => Extracted(tasks[t].files[i])
                   = Extracted(FileRecord(tasks[t].files[i].path))

\* C18: with the cache available, a later pass opens none of the files that
\* a completed pass of an earlier session has processed.
C18_NoSecondExtraction ==
    USE_SQLITE => \A t \in TaskIds : tasks[t].opened \cap indexed_before = {}

\* every record of task t comes from opening its file: the record of the
\* file as it is, that record without a bbox, or with the extent the reader
\* gave
FreshWalk(t) ==
    /\ CacheHits(t) = {}
    /\ \A i \in 1..Len(tasks[t].files) :
           LET rec == tasks[t].files[i]
           IN rec \in {FileRecord(rec.path),
                       [FileRecord(rec.path) EXCEPT !.bbox = << >>],
                       [FileRecord(rec.path) EXCEPT
                            !.bbox = Unprojected(rec.path)]}
    /\ tasks[t].exception \in {"None", "OSError", "AttributeError"}

\* C19: without the sqlite backend nothing is put in the cache, every file
\* is opened, run() raises no error of its own, and the records are those
\* of a walk that has the backend and finds the cache empty.
C19_NoBackendIsNoCache ==
    /\ ~USE_SQLITE
       => /\ sqlite_files = << >>
          /\ \A t \in TaskIds : tasks[t].pending = << >> /\ FreshWalk(t)
    /\ (USE_SQLITE /\ sqlite_files = << >>)
       => \A t \in TaskIds : FreshWalk(t)

\* C19 witness: a walk without the backend has completed with two records
C19_Witness ==
    /\ ~USE_SQLITE
    /\ \E t \in TaskIds :
           /\ tasks[t].result = "true"
           /\ Len(tasks[t].files) = 2
           /\ tasks[t].opened = tasks[t].seen

\* the files under dir_path that are to be indexed: the name ends in a
\* vector or raster extension and no segment of the path starts with a dot
Eligible(dir_path) ==
    LET levels == WalkOf(dir_path)
        all == UNION {{PathJoin(levels[k].root, levels[k].files[i]) :
                          i \in 1..Len(levels[k].files)} : k \in 1..Len(levels)}
    IN {path \in all :
           /\ \E ext \in VECTOR_EXTENSIONS \cup RASTER_EXTENSIONS :
                  EndsWith(path, ext)
           /\ \A j \in 1..Len(SplitOn(path, "/")) :
                  ~StartsWith(SplitOn(path, "/")[j], <<".">>)}

\* C20: a completed walk holds exactly one record for every file to be
\* indexed under its root, the files whose extraction failed included.
C20_EveryFileRecorded ==
    \A t \in TaskIds :
        tasks[t].result = "true"
        => /\ {tasks[t].files[i].path : i \in 1..Len(tasks[t].files)}
                  = Eligible(tasks[t].dir_path)
           /\ Len(tasks[t].files) = Cardinality(Eligible(tasks[t].dir_path))

\* run() of task t has returned
HasReturned(t) == tasks[t].pc \in {"returned", "done"}

\* C21: a failure while processing one file (unreadable file, file that has
\* disappeared since the enumeration, dataset without a layer, invalid or
\* missing CRS, failed reprojection) never aborts the walk: a walk that was
\* not cancelled takes up every candidate file and run() returns True.
C21_FileFailureDoesNotAbort ==
    \A t \in TaskIds :
        (HasReturned(t) /\ ~tasks[t].canceled
             /\ tasks[t].exception # "OperationalError")
        => /\ tasks[t].result = "true"
           /\ tasks[t].seen = Eligible(tasks[t].dir_path)

\* the bboxes task t holds: those of its records and those of the rows it
\* has written, each with the path it belongs to
BoxesHeld(t) ==
    {<<tasks[t].files[i].path, tasks[t].files[i].bbox>> :
        i \in 1..Len(tasks[t].files)}
    \cup {<<tasks[t].pending[i].file_path_hash, tasks[t].pending[i].bbox>> :
              i \in 1..Len(tasks[t].pending)}

\* the bboxes of the committed rows of the cache
BoxesCached ==
    {<<sqlite_files[i].file_path_hash, sqlite_files[i].bbox>> :
        i \in 1..Len(sqlite_files)}

\* C25: the bbox of a FileRecord is absent whenever the source CRS is missing
\* or invalid or the reprojection fails: every bbox a record or a cache row
\* holds is the reprojected one, never the extent in the file's own units.
C25_NoNativeExtentStored ==
    \A pb \in BoxesCached \cup UNION {BoxesHeld(t) : t \in TaskIds} :
        pb[2] \in {<< >>, Reprojected(pb[1])}

\* C26: every bbox held by a FileRecord or a cache row is a 4-tuple
\* (min_lon, min_lat, max_lon, max_lat) with min <= max on both axes.
C26_BBoxIsOrdered ==
    \A pb \in BoxesCached \cup UNION {BoxesHeld(t) : t \in TaskIds} :
        pb[2] # << >>
        => /\ Len(pb[2]) = 4
           /\ pb[2][1] <= pb[2][3]
           /\ pb[2][2] <= pb[2][4]

\* the name of the file ends in a configured extension and no segment of
\* the path, the name included, starts with a dot
NoHiddenSegment(path) ==
    LET parts == SplitOn(path, "/")
    IN /\ \E ext \in {<<".", "s", "h", "p">>, <<".", "g", "p", "k", "g">>,
                      <<".", "f", "g", "b">>, <<".", "t", "i", "f">>} :
              EndsWith(parts[Len(parts)], ext)
       /\ \A j \in 1..Len(parts) : ~StartsWith(parts[j], <<".">>)

\* C27: every FileRecord of an index has a path whose file name ends in one
\* of the configured extensions and does not start with a dot, and none of
\* whose directory segments starts with a dot, the files of directories
\* below a hidden directory included.
C27_NoHiddenPathIndexed ==
    \A t \in TaskIds :
        /\ \A i \in 1..Len(tasks[t].files) :
               NoHiddenSegment(tasks[t].files[i].path)
        /\ \A i \in 1..Len(tasks[t].files_to_index) :
               NoHiddenSegment(tasks[t].files_to_index[i])

\* C27 witness: a walk over the home directory that has a directory below a
\* hidden one has completed with the two files outside it
C27_Witness ==
    /\ fs = DeepFS
    /\ \E t \in TaskIds :
           /\ tasks[t].result = "true"
           /\ Len(tasks[t].files) = 2
           /\ tasks[t].seen = Eligible(HomeDir)

\* task t stands at a cancellation poll of run(): before a directory level
\* of the enumeration or before a file of the processing loop
AtPoll(t) ==
    \/ tasks[t].pc = "walk"
           /\ tasks[t].level <= Len(WalkOf(tasks[t].dir_path))
    \/ tasks[t].pc = "process"
           /\ tasks[t].processed_files < Len(tasks[t].files_to_index)

\* C28: cancellation is polled before each directory level of the
\* enumeration and before each file of the processing loop: a task that
\* reaches such a poll with isCanceled() true returns False, and extracts
\* and appends no further file.
C28_CancelIsPolled ==
    [][\A t \in TaskIds :
          (tasks[t].canceled /\ AtPoll(t) /\ t \in DOMAIN tasks'
               /\ tasks'[t] # tasks[t])
          => /\ tasks'[t].pc = "returned"
             /\ tasks'[t].result = "false"
             /\ tasks'[t].exception = "None"
             /\ tasks'[t].files = tasks[t].files
             /\ tasks'[t].filename_trigrams = tasks[t].filename_trigrams
             /\ tasks'[t].opened = tasks[t].opened
             /\ tasks'[t].seen = tasks[t].seen
             /\ tasks'[t].pending = tasks[t].pending]_vars

\* C28 witness: a walk cancelled behind its first file has returned False at
\* the poll before the second, with the one record
C28_Witness ==
    \E t \in TaskIds :
        /\ tasks[t].canceled
        /\ tasks[t].pc = "returned"
        /\ tasks[t].result = "false"
        /\ tasks[t].exception = "None"
        /\ tasks[t].processed_files = 1
        /\ Len(tasks[t].files) = 1
        /\ Cardinality(Eligible(tasks[t].dir_path)) = 2

\* how the walk of task t ended
Ending(t) ==
    IF tasks[t].result = "true" THEN "completed"
    ELSE IF tasks[t].exception # "None" THEN "failed"
    ELSE "cancelled"

\* C29: a cancelled walk returns without raising and records no exception,
\* and what the completion handler of KueFind observes for it differs from
\* what it observes for a completed walk and for a failed walk.
C29_CancelledIsDistinct ==
    \A t \in TaskIds :
        tasks[t].pc = "done"
        => /\ tasks[t].canceled /\ tasks[t].result = "false"
              => tasks[t].exception = "None"
           /\ \A u \in TaskIds :
                  (tasks[u].pc = "done" /\ Ending(u) # Ending(t))
                  => tasks[u].observed # tasks[t].observed

OneRowPerKey(table) ==
    \A i, j \in 1..Len(table) :
        table[i].file_path_hash = table[j].file_path_hash => i = j

\* C31: the persistent cache holds at most one row per file identity:
\* writing the metadata of an identity that has a row replaces that row, and
\* leaves the rows of the other identities as they are.
C31_OneRowPerIdentity ==
    (ret.op = "insert_or_replace" /\ ret.kind = "value")
    => LET table == ret.val[1]
           row == ret.val[2]
           out == ret.val[3]
       IN /\ OneRowPerKey(out)
          /\ Keys(out) = Keys(table) \cup {row.file_path_hash}
          /\ RowAt(out, row.file_path_hash) = row
          /\ \A h \in Keys(table) \ {row.file_path_hash} :
                 RowAt(out, h) = RowAt(table, h)

\* C31 witness: a row has been written for an identity that had a row with
\* another bbox, in a table of two rows
C31_Witness ==
    /\ ret.op = "insert_or_replace" /\ ret.kind = "value"
    /\ Len(ret.val[1]) = 2
    /\ ret.val[2].file_path_hash \in Keys(ret.val[1])
    /\ RowAt(ret.val[1], ret.val[2].file_path_hash) # ret.val[2]
    /\ Len(ret.val[3]) = 2

\* C32: a walk never deletes a cache row, and it changes the row of no
\* identity but those of files it has opened itself: the rows of files that
\* are gone or that were served from the cache stay as they are.
C32_WalkLeavesOtherRows ==
    [][\A h \in Keys(sqlite_files) :
          /\ h \in Keys(sqlite_files')
          /\ RowAt(sqlite_files', h) # RowAt(sqlite_files, h)
             => \E t \in DOMAIN tasks' : h \in tasks'[t].opened]_vars

\* C32 witness: the files are gone, a walk of a later session has completed
\* and the rows written for them are still there
C32_Witness ==
    /\ fs = EmptyFS
    /\ Len(sqlite_files) = 2
    /\ \E t \in TaskIds : tasks[t].pc = "done" /\ tasks[t].result = "true"

\* the units of a recency label, largest first, and their counts for an age
Units == <<"years ago", "months ago", "days ago", "hours ago", "minutes ago">>

UnitCounts(age) ==
    LET days == ((age \div 60) \div 60) \div 24
    IN <<days \div 365, days \div 30, days, (age \div 60) \div 60, age \div 60>>

\* the first of the units for which P holds of its count, minutes if none
FirstUnit(age, P(_)) ==
    LET hits == {i \in 1..4 : P(UnitCounts(age)[i])}
        i == IF hits = {} THEN 5 ELSE CHOOSE h \in hits : \A g \in hits : h <= g
    IN <<UnitCounts(age)[i], Units[i]>>

Nonzero(n) == n # 0
Positive(n) == n > 0

\* C35 as stated: the recency label reports the largest unit with a nonzero
\* count, in the order years, months, days, hours, minutes, of the time
\* between the last access and now; under one hour it is in minutes
C35_LargestNonzeroUnit ==
    (ret.op = "humanize_atime" /\ ret.kind = "value")
    => LET age == ret.val[2] - ret.val[1]
       IN /\ ret.val[3] = FirstUnit(age, Nonzero)
          /\ age < 3600 => ret.val[3] = <<age \div 60, "minutes ago">>

\* C35 amended: the recency label reports the largest unit with a positive
\* count, in the order years, months, days, hours, minutes; when no count is
\* positive (under one hour, a last access ahead of the clock included) it
\* is in minutes, with the count age // 60
C35_LargestPositiveUnit ==
    (ret.op = "humanize_atime" /\ ret.kind = "value")
    => LET age == ret.val[2] - ret.val[1]
       IN /\ ret.val[3] = FirstUnit(age, Positive)
          /\ age < 3600 => ret.val[3] = <<age \div 60, "minutes ago">>

\* C35 witness: a file last read 360 days ago is labelled in months, no
\* year being complete
C35_Witness ==
    /\ ret.op = "humanize_atime" /\ ret.kind = "value"
    /\ ret.val[2] - ret.val[1] = 31104000
    /\ ret.val[3] = <<12, "months ago">>

\* C36: the rows written during a walk become durable only if the walk runs
\* to completion: the persistent cache changes at no step but the one in
\* which a run() returns True, so after a cancelled or failed walk it holds
\* the rows it held before.
C36_RowsDurableOnCompletion ==
    [][sqlite_files' # sqlite_files
          => \E t \in TaskIds :
                 /\ InFlight(t)
                 /\ tasks'[t].pc = "returned"
                 /\ tasks'[t].result = "true"
                 /\ sqlite_files' = Merge(sqlite_files, tasks[t].pending)]_vars

\* C36 witness: a walk that had written a row was cancelled and has returned,
\* and the cache is as empty as before
C36_Witness ==
    /\ sqlite_files = << >>
    /\ \E t \in TaskIds :
           /\ tasks[t].pc = "returned"
           /\ tasks[t].canceled
           /\ tasks[t].result = "false"
           /\ tasks[t].pending # << >>

\* C37: a walk whose run() ended with an exception publishes nothing: when
\* its termination is handled, KueFind.files and KueFind.filename_trigrams
\* stay what they were and index_task is None.
C37_FailedWalkPublishesNothing ==
    [][\A t \in TaskIds :
          (TaskSignal(t) /\ tasks[t].exception # "None")
          => /\ ListOf(files)' = ListOf(files)
             /\ DictOf(filename_trigrams)' = DictOf(filename_trigrams)
             /\ index_task' = 0]_vars

----------------------------------------------------------------------------
(* Claims about the streaming decoder *)

\* the signals that carry the stream: text and actions
Streamed(out) ==
    SelectSeq(out, LAMBDA e : e.signal \in {"streamingContentReceived",
                                            "streamingActionReceived"})

RECURSIVE Joined(_)
\* what a listener sees: the objects, and the text before, between and
\* after them joined up
Joined(out) ==
    IF Len(out) < 2 THEN out
    ELSE LET rest == Joined(Tail(out))
         IN IF out[1].signal = "streamingContentReceived"
               /\ rest[1].signal = "streamingContentReceived"
            THEN <<TextSignal(out[1].text \o rest[1].text)>> \o Tail(rest)
            ELSE <<out[1]>> \o rest

RECURSIVE SourceOf(_)
\* the characters the signals were cut from, in order
SourceOf(out) ==
    IF out = << >> THEN << >> ELSE out[1].text \o SourceOf(Tail(out))

\* what the decoder emits when the whole body arrives in one chunk
InOneChunk == DecodeLoop(Utf8Decode(Flatten(sent.segments)), << >>).out

\* C3: however the body is split into chunks, the objects emitted and the
\* text emitted before, between and after them are those emitted when the
\* body arrives in a single chunk.
C3_ChunkingDoesNotMatter ==
    body = << >> => Joined(Streamed(emitted)) = Joined(InOneChunk)

\* C4: after every handle_ready_read the text emitted and the source spans
\* of the objects emitted, in emission order, followed by _read_buffer, are
\* the decoded input received so far.
C4_NoTextDropped ==
    SourceOf(Streamed(emitted)) \o _read_buffer = received.text

\* C4 witness: text and an object have been emitted and the start of a
\* second object is held back in the buffer
C4_Witness ==
    /\ \E i \in 1..Len(emitted) : emitted[i].signal = "streamingActionReceived"
    /\ \E i \in 1..Len(emitted) : emitted[i].signal = "streamingContentReceived"
    /\ _read_buffer # << >>
    /\ received.chunks >= 2

RECURSIVE ObjectsWithin(_, _)
\* the objects of the reply that lie wholly in its first n bytes
ObjectsWithin(segments, n) ==
    IF segments = << >> \/ Len(segments[1].bytes) > n THEN << >>
    ELSE (IF segments[1].kind = "object" THEN <<segments[1].bytes>> ELSE << >>)
         \o ObjectsWithin(Tail(segments), n - Len(segments[1].bytes))

\* the source spans of the objects emitted so far, in emission order
ObjectsEmitted ==
    LET actions == SelectSeq(emitted,
                       LAMBDA e : e.signal = "streamingActionReceived")
    IN [i \in 1..Len(actions) |-> actions[i].text]

\* C5: every JSON object of the stream is emitted exactly once as soon as
\* the chunk that completes it has been received, in stream order: after
\* every handle_ready_read the objects emitted are the objects received.
C5_ObjectsEmittedWhenComplete ==
    ObjectsEmitted =
        ObjectsWithin(sent.segments, Len(Flatten(sent.segments)) - Len(body))

\* C33: text is not withheld for ever.  Once the whole reply has arrived and
\* it ends with a complete JSON object, every character before that object
\* is known not to be part of a JSON object, so none is left in the buffer
C33_TextNotWithheld ==
    (/\ body = << >>
     /\ sent.segments # << >>
     /\ sent.segments[Len(sent.segments)].kind = "object")
    => _read_buffer = << >>

\* the buffers handle_ready_read may find at its next call: what it holds
\* with what readAll() may return
NextBuffers ==
    {_read_buffer \o Utf8Decode(SubSeq(body, 1, k)) : k \in 1..Len(body)}

RECURSIVE Shrinks(_)
\* every iteration of the loop on this buffer leaves the loop or leaves a
\* shorter buffer
Shrinks(buffer) ==
    LET it == Iteration(buffer)
    IN \/ it.exit
       \/ /\ Len(it.buffer) < Len(buffer)
          /\ Shrinks(it.buffer)

RECURSIVE Rounds(_)
\* the number of iterations of the loop on this buffer
Rounds(buffer) ==
    LET it == Iteration(buffer)
    IN IF it.exit THEN 1 ELSE 1 + Rounds(it.buffer)

\* C34: handle_ready_read terminates whatever the buffer holds: each
\* iteration of its loop leaves the loop or removes at least one character
\* from the buffer
C34_LoopTerminates == \A buffer \in NextBuffers \cup {_read_buffer} : Shrinks(buffer)

\* C34 witness: a call has left part of an object in the buffer, and the
\* next call may go through three iterations, two of which decode an object
C34_Witness ==
    /\ received.chunks >= 1
    /\ _read_buffer # << >>
    /\ \E buffer \in NextBuffers : Rounds(buffer) >= 3

\* the lines of a kind the polling endpoint has sent, without newline
LinesSent(kind) ==
    LET lines == SelectSeq(sent.segments, LAMBDA l : l.kind = kind)
    IN [i \in 1..Len(lines) |-> strip(lines[i].bytes)]

\* every value of every action of an emitted object holds the action id
IsStamped(obj) ==
    \A i \in 1..Len(Get(obj.v, ActionsKey).v) :
        LET action == Get(obj.v, ActionsKey).v[i]
        IN \A j \in 1..Len(action.v) :
               /\ \E m \in 1..Len(action.v[j].v.v) :
                      action.v[j].v.v[m].k = IdKey
               /\ Get(action.v[j].v.v, IdKey) = KueActionId

\* C39: every complete JSON action line of the polling stream is emitted
\* exactly once, stamped with kue_action_id, however its bytes are split
\* across readyRead events; a line P<integer> only sets the progress, and a
\* line that is neither is ignored without raising.
C39_ActionLinesEmittedOnce ==
    /\ ~poll.raised
    /\ (body = << >> /\ poll.unread = << >>)
       => /\ [i \in 1..Len(emitted) |-> emitted[i].text] = LinesSent("action")
          /\ \A i \in 1..Len(emitted) : IsStamped(emitted[i].obj)
          /\ LET progress == LinesSent("progress")
             IN progress # << >>
                => poll.progress = int(Tail(progress[Len(progress)])).val

\* C40: when every geoprocessing task started by actionsToResponses has
\* completed, FILTER_INVALID_GEOMETRIES has the value it had before the
\* first of them was started, whatever the order of starts and completions.
C40_SettingRestored ==
    (/\ geo.tasks # << >>
     /\ \A i \in 1..Len(geo.tasks) : geo.tasks[i].state # "running")
    => geo.setting = geo.original

\* the errors the task has emitted, in order
ErrorsEmitted ==
    LET errors == SelectSeq(emitted, LAMBDA e : e.signal = "errorReceived")
    IN [i \in 1..Len(errors) |-> errors[i].text]

\* C38: run() returns True only if the task was not cancelled and the reply
\* finished without error; on every other path (cancellation, a reply error
\* of any status, an exception) it emits exactly one errorReceived and
\* returns False.
C38_OneErrorOrTrue ==
    kue.pc = "returned"
    => LET clean == ~kue.canceled /\ kue.finished /\ kue.status = 0
       IN /\ kue.result \in {"true", "false"}
          /\ kue.result = "true" => clean
          /\ ~clean => kue.result = "false" /\ Len(ErrorsEmitted) = 1

\* C38 witness: the reply ended with status 404, which has no message of
\* its own, after part of it was read; run() has returned False with the
\* one generic error
C38_Witness ==
    /\ kue.pc = "returned"
    /\ ~kue.canceled /\ kue.finished /\ kue.status = 404
    /\ received.chunks >= 1
    /\ kue.result = "false"
    /\ ErrorsEmitted = <<"Kue error">>

\* C22: when the reply has finished while _read_buffer still holds a tail
\* that does not parse, the tail is surfaced by the time run() returns: it
\* has been emitted as text, or an error has been emitted.
C22_TailIsSurfaced ==
    (kue.pc = "returned" /\ kue.finished /\ _read_buffer # << >>)
    => ErrorsEmitted # << >>

\* C23: after KueTask.cancel() the task emits no further
\* streamingContentReceived or streamingActionReceived, whatever the order
\* of cancel(), the readyRead events, the timer and the end of the reply.
C23_NoStreamAfterCancel ==
    [][kue.canceled => Streamed(emitted') = Streamed(emitted)]_vars

====
